---- MODULE Spec2Model ----
(***************************************************************************)
(* The per-user real-time session bridge of                                *)
(* websocket-server/src/userSessionManager.ts: the session registry, the   *)
(* call-identifier registrations, the three WebSocket links of a session   *)
(* (telephony, model, observer), the barge-in truncation timer and the     *)
(* dispatch of model-requested function calls.                             *)
(*                                                                         *)
(* One action is one run of a Node.js event handler (a WebSocket event, a  *)
(* timer callback, a promise continuation, an exported function called by  *)
(* the HTTP layer).  Handlers run to completion, so each is atomic.  A     *)
(* handler is written as a function from "worlds" to worlds: a world is    *)
(* the record of everything a handler can read or change, and the calls a  *)
(* handler makes are composed in the order of the code.                    *)
(***************************************************************************)
EXTENDS Integers, Sequences, FiniteSets, TLC

VARIABLES
    userSessions,     \* Map userId -> session object (0: no entry)
    obj,              \* the UserSession objects, by object id
    callSidToUserId,  \* Map callSid -> userId
    readyState,       \* ws.readyState of every WebSocket
    connUser,         \* the userId captured by a socket's listeners
    connSess,         \* the session object captured by a socket's close listener
    timers,           \* pending setTimeout(handleTruncation) callbacks, per userId
    calls,            \* function handlers that are running (awaited promises)
    ev,               \* the event handled by the last step
    sent,             \* the ws.send calls of the last step, in order
    hist,             \* the callHistoryService calls of the last step, in order
    endCalls,         \* endCallTracking invocations made by each telephony socket's handlers
    dialing,          \* calls the provider has created whose calls.create() is still awaited
    stale,            \* per userId: pending timers scheduled before the last truncation that ran
    pool              \* how many sockets of each kind, and pending timers per user, can
                      \* exist at once (fixed by Init)

vars == <<userSessions, obj, callSidToUserId, readyState, connUser, connSess,
          timers, calls, ev, sent, hist, endCalls, dialing, stale, pool>>

-----------------------------------------------------------------------------
(* Bounds of the model *)

MaxTs == 1          \* media timestamps are 0..MaxTs
MaxTimers == 1      \* pending truncation timers per user
MaxCalls == 1       \* function handlers running at once
MaxEndCalls == 2    \* the endCallTracking counter saturates here

(* Values *)

NONE == "none"      \* undefined / null for string-valued fields and handles
UNDEF == -1         \* undefined for number-valued fields
NoSess == 0         \* no session object

Users == {"u1", "u2"}
SessIds == 1..Cardinality(Users)
CallSids == {"CA1", "CA2"}
StreamSids == {"S1", "S2"}
Timestamps == 0..MaxTs
PayloadOf(ts) == <<"audio", ts>>     \* every media frame carries its own audio
ItemIds == {"i1", "i2"}
Configs == {"P1"}

(* The sockets that can exist at once, in the order their names are handed out *)
TwilioSeq == <<"t1", "t2">>
FrontendSeq == <<"f1", "f2">>
ModelSeq == <<"m1", "m2">>
Range(q) == { q[i] : i \in DOMAIN q }
TwilioConns == Range(TwilioSeq)
FrontendConns == Range(FrontendSeq)
ModelConns == Range(ModelSeq)
Conns == TwilioConns \cup FrontendConns \cup ModelConns

(* process.env.OPENAI_API_KEY, non-empty or the server exits at start *)
OPENAI_API_KEY == "sk-key"

(* WebSocket.readyState; FREE is a socket that does not exist (yet, or any more) *)
FREE == "FREE"
CONNECTING == "CONNECTING"
OPEN == "OPEN"
CLOSING == "CLOSING"
CLOSED == "CLOSED"

-----------------------------------------------------------------------------
(* Sessions *)

\* src/websocket-server/src/types.ts UserSession; getUserSession creates { userId }
NewSession(u) ==
    [ userId |-> u,
      twilioConn |-> NONE, frontendConn |-> NONE, modelConn |-> NONE,
      streamSid |-> NONE, saved_config |-> NONE,
      lastAssistantItem |-> NONE,
      responseStartTimestamp |-> UNDEF, latestMediaTimestamp |-> UNDEF,
      openAIApiKey |-> NONE,
      callType |-> NONE, callSid |-> NONE, outboundCallStatus |-> NONE ]

\* an object id that holds no session
Blank == NewSession(NONE)

World ==
    [ reg |-> userSessions, obj |-> obj, csid |-> callSidToUserId,
      rs |-> readyState, cu |-> connUser, cs |-> connSess,
      timers |-> timers, calls |-> calls,
      sent |-> <<>>, hist |-> <<>>, endCalls |-> endCalls, dialing |-> dialing,
      stale |-> stale, pool |-> pool,
      ok |-> TRUE,       \* FALSE: the step would exceed a bound of the model
      thrown |-> FALSE ] \* TRUE: the handler threw and nothing caught it

Commit(w, e) ==
    /\ userSessions' = w.reg
    /\ obj' = w.obj
    /\ callSidToUserId' = w.csid
    /\ readyState' = w.rs
    /\ connUser' = w.cu
    /\ connSess' = w.cs
    /\ timers' = w.timers
    /\ calls' = w.calls
    /\ sent' = w.sent
    /\ hist' = w.hist
    /\ endCalls' = w.endCalls
    /\ dialing' = w.dialing
    /\ stale' = w.stale
    /\ pool' = pool
    /\ ev' = IF w.thrown THEN [op |-> "uncaught_exception", in |-> e] ELSE e
    \* no handler catches: the exception of a listener ends the Node.js process
    /\ ev.op # "uncaught_exception"

Min(S) == CHOOSE x \in S : \A y \in S : x <= y

FreeSessIds(w) == { s \in SessIds : w.obj[s].userId = NONE /\ \A c \in Conns : w.cs[c] # s }

\* one session object serves every user: a new userId is given the object of another
GetUserSession_Shared(w, u) ==
    IF w.reg[u] # NoSess THEN w
    ELSE IF \E v \in Users : w.reg[v] # NoSess
    THEN [w EXCEPT !.reg[u] = w.reg[CHOOSE v \in Users : w.reg[v] # NoSess]]
    ELSE LET s == Min(FreeSessIds(w))
         IN [w EXCEPT !.reg[u] = s, !.obj[s] = NewSession(u)]

\* getUserSession: the session of userId, created when the map has none
GetUserSession(w, u) ==
    IF w.reg[u] # NoSess THEN w
    ELSE LET s == Min(FreeSessIds(w))
         IN [w EXCEPT !.reg[u] = s, !.obj[s] = NewSession(u)]

\* the object getUserSession(u) returns in a world where it exists
SessOf(w, u) == w.reg[u]

\* ws && (ws.readyState === OPEN || ws.readyState === CONNECTING) -> ws.close()
CleanupConnection(w, c) ==
    IF c # NONE /\ w.rs[c] \in {OPEN, CONNECTING}
    THEN [w EXCEPT !.rs[c] = CLOSING]
    ELSE w

\* deleteUserSession: the object stays with the listeners that captured it
DeleteUserSession(w, u) ==
    IF w.reg[u] = NoSess THEN w
    ELSE LET s == w.reg[u]
             w1 == CleanupConnection(w, w.obj[s].twilioConn)
             w2 == CleanupConnection(w1, w1.obj[s].frontendConn)
             w3 == CleanupConnection(w2, w2.obj[s].modelConn)
         IN [w3 EXCEPT !.reg[u] = NoSess]

\* the socket is left open
WsClose_Forgotten(w, c) == w

\* ws.close() on a socket a handler holds: a no-op on CLOSING and CLOSED
WsClose(w, c) ==
    IF w.rs[c] \in {OPEN, CONNECTING} THEN [w EXCEPT !.rs[c] = CLOSING] ELSE w

IsOpen(w, c) == c # NONE /\ w.rs[c] = OPEN

\* the message is handed to a socket that is still connecting as well
JsonSend_Early(w, c, m) ==
    IF c # NONE /\ w.rs[c] \in {OPEN, CONNECTING}
    THEN [w EXCEPT !.sent = Append(@, [to |-> c, msg |-> m])]
    ELSE w

\* jsonSend: sends only on a socket that is OPEN
JsonSend(w, c, m) ==
    IF c # NONE /\ w.rs[c] = OPEN
    THEN [w EXCEPT !.sent = Append(@, [to |-> c, msg |-> m])]
    ELSE w

\* a TypeError (a property of undefined is read) thrown out of a listener
Throw(w) == [w EXCEPT !.thrown = TRUE]

\* a fire-and-forget call of the call-history collaborator
Emit(w, h) == [w EXCEPT !.hist = Append(@, h)]


-----------------------------------------------------------------------------
(* Sockets *)

\* a socket object is still reachable: a session or a running handler holds it
Referenced(w, c) ==
    \/ \E s \in SessIds : c \in {w.obj[s].twilioConn, w.obj[s].frontendConn, w.obj[s].modelConn}
    \/ \E k \in w.calls : k.from = c

\* the first name of q, among the n the pool allows, that no socket bears
FirstFree(w, q, n) ==
    LET free == { i \in DOMAIN q : i <= n /\ w.rs[q[i]] = FREE } IN
    IF free = {} THEN NONE ELSE q[Min(free)]

\* a socket that is CLOSED has emitted its last event; once nothing holds it, it is gone
Collect(w) ==
    LET gone == { c \in Conns : w.rs[c] = CLOSED /\ ~Referenced(w, c) } IN
    [w EXCEPT !.rs = [c \in Conns |-> IF c \in gone THEN FREE ELSE @[c]],
              !.cu = [c \in Conns |-> IF c \in gone THEN NONE ELSE @[c]],
              !.cs = [c \in Conns |-> IF c \in gone THEN NoSess ELSE @[c]],
              !.endCalls = [c \in TwilioConns |-> IF c \in gone THEN 0 ELSE @[c]]]

-----------------------------------------------------------------------------
(* Messages *)

\* what a socket delivers: a text that is JSON for a value, or one that is not
Json(m) == [kind |-> "json", value |-> m]
Garbage == [kind |-> "garbage"]

Null == [null |-> TRUE]
IsNull(m) == "null" \in DOMAIN m

\* a text that is not JSON is taken for an empty object
ParseMessage_Empty(d) == IF d.kind = "json" THEN d.value ELSE [event |-> NONE, type |-> NONE]

\* parseMessage: JSON.parse, null when it throws
ParseMessage(d) == IF d.kind = "json" THEN d.value ELSE Null

\* the media stream of a telephony socket: the provider names one stream per socket
StreamOf(c) == IF c = TwilioSeq[1] THEN "S1" ELSE "S2"

Froms == {NONE, "+15550001"}

TwilioMsgs(c) ==
    { [event |-> "start", start |-> [callSid |-> k, streamSid |-> StreamOf(c), from |-> f]] :
          k \in CallSids, f \in Froms }
    \cup { [event |-> "media", media |-> [timestamp |-> ts, payload |-> PayloadOf(ts)]] :
          ts \in Timestamps }
    \cup { [event |-> "stop"], [event |-> "close"], [event |-> "mark"] }

TwilioData(c) == { Json(m) : m \in TwilioMsgs(c) } \cup {Garbage}

-----------------------------------------------------------------------------
(* The model link *)

\* what the open listener sends: the defaults, overridden key by key by saved_config
DefaultConfig ==
    [ modalities |-> "text,audio", turn_detection |-> "server_vad", voice |-> "ash",
      input_audio_transcription |-> "whisper-1",
      input_audio_format |-> "g711_ulaw", output_audio_format |-> "g711_ulaw" ]

\* the stream is given up with the model link
CloseModel_StreamToo(w, u) ==
    LET w1 == GetUserSession(w, u)
        s == SessOf(w1, u)
        w2 == CleanupConnection(w1, w1.obj[s].modelConn)
    IN [w2 EXCEPT !.obj[s].modelConn = NONE, !.obj[s].streamSid = NONE]

\* closeModel
CloseModel(w, u) ==
    LET w1 == GetUserSession(w, u)
        s == SessOf(w1, u)
        w2 == CleanupConnection(w1, w1.obj[s].modelConn)
    IN [w2 EXCEPT !.obj[s].modelConn = NONE]

\* tryConnectModel; the listeners of the new socket capture userId and session
TryConnectModel(w, u) ==
    LET w1 == GetUserSession(w, u)
        s == SessOf(w1, u)
        o == w1.obj[s]
        m == FirstFree(w1, ModelSeq, w1.pool.model)
    IN IF o.twilioConn = NONE \/ o.streamSid = NONE \/ o.openAIApiKey = NONE THEN w1
       ELSE IF IsOpen(w1, o.modelConn) THEN w1
       ELSE IF m = NONE THEN [w1 EXCEPT !.ok = FALSE]
       ELSE [w1 EXCEPT !.obj[s].modelConn = m, !.rs[m] = CONNECTING,
                       !.cu[m] = u, !.cs[m] = s]

-----------------------------------------------------------------------------
(* The telephony link *)

\* endCallTracking(session.callSid), guarded by if (session.callSid), in a handler of socket c
EndTracking(w, s, c) ==
    IF w.obj[s].callSid = NONE THEN w
    ELSE [Emit(w, [fn |-> "endCallTracking", callSid |-> w.obj[s].callSid])
            EXCEPT !.endCalls[c] = IF @ < MaxEndCalls THEN @ + 1 ELSE @]

\* the lookup misses every call identifier
GetUserIdByCallSid_Lost(w, callSid) == NONE

\* getUserIdByCallSid
GetUserIdByCallSid(w, callSid) == w.csid[callSid]

\* the lookup is one-shot: identification uses the registration up
Identify_OneShot(w, c, msg) ==
    LET callSid == msg.start.callSid
        found == GetUserIdByCallSid(w, callSid)
    IN IF found = NONE THEN [w |-> WsClose(w, c), userId |-> NONE]
       ELSE LET w1 == GetUserSession([w EXCEPT !.csid[callSid] = NONE], found)
                s == SessOf(w1, found)
                w2 == CleanupConnection(w1, w1.obj[s].twilioConn)
                w3 == [w2 EXCEPT !.obj[s].twilioConn = c,
                                 !.obj[s].openAIApiKey = OPENAI_API_KEY]
                w4 == IF w3.obj[s].callType = "outbound"
                      THEN Emit([w3 EXCEPT !.obj[s].outboundCallStatus = "connected"],
                                [fn |-> "updateCallStatus", callSid |-> callSid,
                                 status |-> "connected"])
                      ELSE w3
                w5 == [w4 EXCEPT !.cu[c] = found, !.cs[c] = s]
            IN [w |-> w5, userId |-> found]

\* handleTwilioMessage, lines 131-188: a "start" on a socket that has no userId yet.
\* Yields the world and the userId the rest of the handler runs with (NONE: it returned).
Identify(w, c, msg) ==
    LET callSid == msg.start.callSid
        found == GetUserIdByCallSid(w, callSid)
    IN IF found = NONE THEN [w |-> WsClose(w, c), userId |-> NONE]
       ELSE LET w1 == GetUserSession(w, found)
                s == SessOf(w1, found)
                w2 == CleanupConnection(w1, w1.obj[s].twilioConn)
                w3 == [w2 EXCEPT !.obj[s].twilioConn = c,
                                 !.obj[s].openAIApiKey = OPENAI_API_KEY]
                w4 == IF w3.obj[s].callType = "outbound"
                      THEN Emit([w3 EXCEPT !.obj[s].outboundCallStatus = "connected"],
                                [fn |-> "updateCallStatus", callSid |-> callSid,
                                 status |-> "connected"])
                      ELSE w3
                \* removeAllListeners('message'); on('message') with userId; on('close')
                w5 == [w4 EXCEPT !.cu[c] = found, !.cs[c] = s]
            IN [w |-> w5, userId |-> found]

\* case "start"
OnStart(w, u, msg) ==
    LET s == SessOf(w, u)
        w1 == [w EXCEPT !.obj[s].streamSid = msg.start.streamSid,
                        !.obj[s].latestMediaTimestamp = 0,
                        !.obj[s].lastAssistantItem = NONE,
                        !.obj[s].responseStartTimestamp = UNDEF]
        w2 == IF w1.obj[s].callType # NONE THEN w1
              ELSE LET w1a == [w1 EXCEPT !.obj[s].callType = "inbound"]
                   IN IF msg.start.callSid = NONE THEN w1a
                      ELSE [Emit(w1a, [fn |-> "startCallTracking",
                                       callSid |-> msg.start.callSid, userId |-> u,
                                       phoneNumber |-> IF msg.start.from = NONE
                                                       THEN "unknown" ELSE msg.start.from,
                                       direction |-> "inbound"])
                              EXCEPT !.obj[s].callSid = msg.start.callSid]
    IN TryConnectModel(w2, u)

\* the frame is written to the model socket whatever its readyState (ws queues it)
OnMedia_Unguarded(w, u, msg) ==
    LET s == SessOf(w, u)
        w1 == [w EXCEPT !.obj[s].latestMediaTimestamp = msg.media.timestamp]
    IN IF w1.obj[s].modelConn # NONE
       THEN [w1 EXCEPT !.sent = Append(@, [to |-> w1.obj[s].modelConn,
                msg |-> [type |-> "input_audio_buffer.append", audio |-> msg.media.payload]])]
       ELSE w1

\* case "media"
OnMedia(w, u, msg) ==
    LET s == SessOf(w, u)
        w1 == [w EXCEPT !.obj[s].latestMediaTimestamp = msg.media.timestamp]
    IN IF IsOpen(w1, w1.obj[s].modelConn)
       THEN JsonSend(w1, w1.obj[s].modelConn,
                     [type |-> "input_audio_buffer.append", audio |-> msg.media.payload])
       ELSE w1

\* the telephony link is given up, the model link is kept for the next stream
OnCloseMsg_KeepsModel(w, u, c) ==
    LET s == SessOf(w, u)
        w1 == EndTracking(w, s, c)
        w2 == CleanupConnection(w1, w1.obj[s].twilioConn)
    IN [w2 EXCEPT !.obj[s].twilioConn = NONE,
                  !.obj[s].outboundCallStatus = "disconnected"]

\* case "close"
OnCloseMsg(w, u, c) ==
    LET s == SessOf(w, u)
        w1 == EndTracking(w, s, c)
        w2 == CleanupConnection(w1, w1.obj[s].twilioConn)
        w3 == CleanupConnection(w2, w2.obj[s].modelConn)
    IN [w3 EXCEPT !.obj[s].twilioConn = NONE,
                  !.obj[s].modelConn = NONE,
                  !.obj[s].outboundCallStatus = "disconnected"]

\* case "stop"
OnStop(w, u, c) == EndTracking(w, SessOf(w, u), c)

\* a "close" event is acted on before the socket is bound to a call: the socket is closed
HandleTwilioMessage_Unbound(w, c, d) ==
    LET msg == ParseMessage(d) IN
    IF IsNull(msg) THEN w
    ELSE IF msg.event = "start" /\ "start" \notin DOMAIN msg
    THEN IF w.cu[c] = NONE THEN Throw(w) ELSE Throw(GetUserSession(w, w.cu[c]))
    ELSE IF msg.event = "media" /\ "media" \notin DOMAIN msg /\ w.cu[c] # NONE
    THEN Throw(GetUserSession(w, w.cu[c]))
    ELSE LET id == IF w.cu[c] = NONE /\ msg.event = "start"
                   THEN Identify(w, c, msg)
                   ELSE [w |-> w, userId |-> w.cu[c]]
             u == id.userId
         IN IF u = NONE
            THEN IF msg.event = "close" THEN WsClose(id.w, c) ELSE id.w
            ELSE LET w1 == GetUserSession(id.w, u) IN
                 CASE msg.event = "start" -> OnStart(w1, u, msg)
                   [] msg.event = "media" -> OnMedia(w1, u, msg)
                   [] msg.event = "close" -> OnCloseMsg(w1, u, c)
                   [] msg.event = "stop" -> OnStop(w1, u, c)
                   [] OTHER -> w1

\* handleTwilioMessage(data, userId, ws, openAIApiKey); userId is the listener's
HandleTwilioMessage(w, c, d) ==
    LET msg == ParseMessage(d) IN
    IF IsNull(msg) THEN w
    \* msg.start.callSid (line 132), msg.start.streamSid (line 201) of undefined
    ELSE IF msg.event = "start" /\ "start" \notin DOMAIN msg
    THEN IF w.cu[c] = NONE THEN Throw(w) ELSE Throw(GetUserSession(w, w.cu[c]))
    \* msg.media.timestamp (line 226) of undefined, past the guard on userId
    ELSE IF msg.event = "media" /\ "media" \notin DOMAIN msg /\ w.cu[c] # NONE
    THEN Throw(GetUserSession(w, w.cu[c]))
    ELSE LET id == IF w.cu[c] = NONE /\ msg.event = "start"
                   THEN Identify(w, c, msg)
                   ELSE [w |-> w, userId |-> w.cu[c]]
             u == id.userId
         IN IF u = NONE THEN id.w
            ELSE LET w1 == GetUserSession(id.w, u) IN
                 CASE msg.event = "start" -> OnStart(w1, u, msg)
                   [] msg.event = "media" -> OnMedia(w1, u, msg)
                   [] msg.event = "close" -> OnCloseMsg(w1, u, c)
                   [] msg.event = "stop" -> OnStop(w1, u, c)
                   [] OTHER -> w1

\* the end of the call takes the observer link down with it
OnTwilioClose_All(w, c) ==
    LET s == w.cs[c]
        w1 == EndTracking(w, s, c)
        w2 == CleanupConnection(w1, w1.obj[s].modelConn)
        w3 == CleanupConnection(w2, w2.obj[s].twilioConn)
        w4 == CleanupConnection(w3, w3.obj[s].frontendConn)
    IN [w4 EXCEPT !.obj[s].twilioConn = NONE,
                  !.obj[s].modelConn = NONE,
                  !.obj[s].frontendConn = NONE,
                  !.obj[s].streamSid = NONE,
                  !.obj[s].lastAssistantItem = NONE,
                  !.obj[s].responseStartTimestamp = UNDEF,
                  !.obj[s].latestMediaTimestamp = UNDEF]

\* the close listener added at identification (lines 166-187); session is the captured object
OnTwilioClose(w, c) ==
    LET s == w.cs[c]
        w1 == EndTracking(w, s, c)
        w2 == CleanupConnection(w1, w1.obj[s].modelConn)
        w3 == CleanupConnection(w2, w2.obj[s].twilioConn)
        w4 == [w3 EXCEPT !.obj[s].twilioConn = NONE,
                         !.obj[s].modelConn = NONE,
                         !.obj[s].streamSid = NONE,
                         !.obj[s].lastAssistantItem = NONE,
                         !.obj[s].responseStartTimestamp = UNDEF,
                         !.obj[s].latestMediaTimestamp = UNDEF]
    IN IF w4.obj[s].callType = "outbound"
       THEN [w4 EXCEPT !.obj[s].outboundCallStatus = "disconnected"]
       ELSE w4

-----------------------------------------------------------------------------
(* Function calls *)

\* the static registry of functionHandlers.ts, by schema.name
FunctionNames == {"new_function"}

\* texts are kept as the sequence of the pieces they are concatenated from
ErrInvalidJson == <<"{\"error\":\"", "Invalid JSON arguments for function call.", "\"}">>
ErrRunning(name, reason) ==
    <<"{\"error\":\"", "Error running function ", name, ": ", reason, "\"}">>
ErrNoHandler(name) == <<"No handler found for function: ", name>>

\* JSON.stringify of a string: the string, escaped, between quotes
JsonStringify(str) == <<"\"">> \o str \o <<"\"">>

\* the argument texts a function_call item can carry, and whether JSON.parse accepts them
ArgTexts == {"{\"param1\":\"x\"}", "{\"param1\":"}
JsonParses(text) == text = "{\"param1\":\"x\"}"

\* what a handler of the registry can do: resolve with a string, or throw
HandlerResults == { <<"{\"result\":\"success\"}">> }
HandlerErrors == { "ETIMEDOUT" }
Outcomes == { [ok |-> TRUE, value |-> r] : r \in HandlerResults }
            \cup { [ok |-> FALSE, message |-> e] : e \in HandlerErrors }

\* handleFunctionCall up to the await: "throw" (rejects), "return" (resolves at once
\* with value) or "await" (the handler runs)
HandleFunctionCall(item) ==
    IF item.name \notin FunctionNames
    THEN [does |-> "throw", message |-> ErrNoHandler(item.name)]
    ELSE IF ~JsonParses(item.arguments)
    THEN [does |-> "return", value |-> ErrInvalidJson]
    ELSE [does |-> "await"]

\* the catch returns a fixed text: err.message is lost
AfterAwait_ReasonLost(item, outcome) ==
    IF outcome.ok THEN outcome.value
    ELSE <<"{\"error\":\"", "Error running function ", item.name, "\"}">>

\* handleFunctionCall after the await: the handler's result, or the error text
AfterAwait(item, outcome) ==
    IF outcome.ok THEN outcome.value ELSE ErrRunning(item.name, outcome.message)

\* the output is sent, the response.create is not
FunctionThen_OutputOnly(w, u, item, output) ==
    LET w1 == GetUserSession(w, u)
        mc == w1.obj[SessOf(w1, u)].modelConn
    IN JsonSend(w1, mc,
                [type |-> "conversation.item.create",
                 item |-> [type |-> "function_call_output", call_id |-> item.call_id,
                           output |-> JsonStringify(output)]])

\* the .then continuation (lines 473-503)
FunctionThen(w, u, item, output) ==
    LET w1 == GetUserSession(w, u)
        s == SessOf(w1, u)
        w2 == IF w1.obj[s].callSid = NONE THEN w1
              ELSE Emit(w1, [fn |-> "addConversationEvent", callSid |-> w1.obj[s].callSid,
                             eventType |-> "function_call", speaker |-> "system",
                             content |-> <<"Result: ">> \o output])
        mc == w2.obj[s].modelConn
    IN IF mc = NONE THEN w2
       ELSE JsonSend(JsonSend(w2, mc,
                [type |-> "conversation.item.create",
                 item |-> [type |-> "function_call_output", call_id |-> item.call_id,
                           output |-> JsonStringify(output)]]),
                mc, [type |-> "response.create"])

\* the .catch continuation (lines 504-522); s is the session handleModelMessage held
FunctionCatch(w, s, item, message) ==
    IF w.obj[s].callSid = NONE THEN w
    ELSE Emit(w, [fn |-> "addConversationEvent", callSid |-> w.obj[s].callSid,
                  eventType |-> "system_event", speaker |-> "system",
                  content |-> <<"Function error: ">> \o message])

-----------------------------------------------------------------------------
(* Truncation *)

\* the offset is taken when the response starts, not when the timer fires
ElapsedMs_AtResponseStart(o) == 0

\* the elapsed offset of handleTruncation, line 542
ElapsedMs(o) ==
    (IF o.latestMediaTimestamp = UNDEF THEN 0 ELSE o.latestMediaTimestamp)
        - o.responseStartTimestamp

\* the guard on the assistant item is missing
NoAssistantItem_Unchecked(o) == FALSE

\* !session.lastAssistantItem
NoAssistantItem(o) == o.lastAssistantItem = NONE

\* !session.responseStartTimestamp: undefined and 0 are both falsy
NoResponseStart(o) == o.responseStartTimestamp = UNDEF \/ o.responseStartTimestamp = 0

InterruptNotice ==
    [type |-> "conversation.item.create",
     item |-> [type |-> "message", role |-> "system", content |-> "interrupted"]]

\* the order of the firings is followed where more than MaxTimers timers can be pending
RecordsFirings(w) == w.pool.timers > MaxTimers

\* handleTruncation
HandleTruncation(w, u) ==
    LET w1 == GetUserSession(w, u)
        s == SessOf(w1, u)
        o == w1.obj[s]
        \* timers of one delay fire in the order they were set: the stale ones first
        w0 == [w1 EXCEPT !.stale[u] = IF @ > 0 THEN @ - 1 ELSE 0]
    IN IF NoAssistantItem(o) THEN w0
       ELSE IF NoResponseStart(o) THEN w0
       ELSE LET elapsedMs == ElapsedMs(o)
                w2 == JsonSend(w1, o.modelConn,
                         [type |-> "conversation.item.truncate",
                          item_id |-> o.lastAssistantItem,
                          content_index |-> 0, audio_end_ms |-> elapsedMs])
                w3 == JsonSend(w2, o.modelConn, [type |-> "input_audio_buffer.clear"])
                w4 == JsonSend(w3, o.modelConn, InterruptNotice)
                w5 == IF o.callSid = NONE THEN w4
                      ELSE Emit(w4, [fn |-> "addConversationEvent", callSid |-> o.callSid,
                                     eventType |-> "system_event", speaker |-> "system",
                                     content |-> <<"Assistant was interrupted by user">>,
                                     elapsed_ms |-> elapsedMs,
                                     truncated_item_id |-> o.lastAssistantItem])
            IN [w5 EXCEPT !.obj[s].lastAssistantItem = NONE,
                          !.obj[s].responseStartTimestamp = UNDEF,
                          !.stale[u] = IF RecordsFirings(w1) THEN w1.timers[u] ELSE 0]

-----------------------------------------------------------------------------
(* Events of the model link *)

\* the provider names every function call: no two items bear the same call_id
CallIds == {"call_1", "call_2"}

FunctionCallItems ==
    { [type |-> "function_call", name |-> n, arguments |-> a, call_id |-> id] :
          n \in FunctionNames \cup {"no_such_function"}, a \in ArgTexts, id \in CallIds }

ModelMsgs ==
    { [type |-> "input_audio_buffer.speech_started"],
      [type |-> "conversation.item.input_audio_transcription.completed", transcript |-> "hello"],
      [type |-> "response.audio_transcript.delta", delta |-> "a long delta"],
      [type |-> "session.created"] }
    \cup { [type |-> "response.audio.delta", item_id |-> i, delta |-> "d1"] :
              i \in ItemIds \cup {NONE} }
    \cup { [type |-> "response.output_item.done", item |-> it] : it \in FunctionCallItems }
    \cup { [type |-> "response.output_item.done",
            item |-> [type |-> "message", content |-> "text"]] }

ModelData == { Json(m) : m \in ModelMsgs } \cup {Garbage}

\* addConversationEvent(session.callSid, ...), guarded by if (session.callSid)
Track(w, s, eventType, speaker, content) ==
    IF w.obj[s].callSid = NONE THEN w
    ELSE Emit(w, [fn |-> "addConversationEvent", callSid |-> w.obj[s].callSid,
                  eventType |-> eventType, speaker |-> speaker, content |-> content])

\* the audio is relayed to the caller only while an observer is watching
OnAudioDelta_Watched(w, s, event) ==
    LET o == w.obj[s] IN
    IF o.twilioConn = NONE \/ o.streamSid = NONE \/ ~IsOpen(w, o.frontendConn) THEN w
    ELSE LET w3 == JsonSend([w EXCEPT !.obj[s].lastAssistantItem = event.item_id],
                      o.twilioConn,
                      [event |-> "media", streamSid |-> o.streamSid,
                       media |-> [payload |-> event.delta]])
         IN JsonSend(w3, o.twilioConn, [event |-> "mark", streamSid |-> o.streamSid])

\* the fragment is relayed without the mark that follows it
OnAudioDelta_NoMark(w, s, event) ==
    LET o == w.obj[s] IN
    IF o.twilioConn = NONE \/ o.streamSid = NONE THEN w
    ELSE LET w1 == IF o.responseStartTimestamp = UNDEF
                   THEN [w EXCEPT !.obj[s].responseStartTimestamp =
                            IF o.latestMediaTimestamp = UNDEF THEN 0
                            ELSE o.latestMediaTimestamp]
                   ELSE w
             w2 == IF event.item_id # NONE
                   THEN [w1 EXCEPT !.obj[s].lastAssistantItem = event.item_id]
                   ELSE w1
         IN JsonSend(w2, o.twilioConn,
                     [event |-> "media", streamSid |-> o.streamSid,
                      media |-> [payload |-> event.delta]])

\* case "response.audio.delta"
OnAudioDelta(w, s, event) ==
    LET o == w.obj[s] IN
    IF o.twilioConn = NONE \/ o.streamSid = NONE THEN w
    ELSE LET w1 == IF o.responseStartTimestamp = UNDEF
                   THEN [w EXCEPT !.obj[s].responseStartTimestamp =
                            IF o.latestMediaTimestamp = UNDEF THEN 0
                            ELSE o.latestMediaTimestamp]
                   ELSE w
             w2 == IF event.item_id # NONE
                   THEN [w1 EXCEPT !.obj[s].lastAssistantItem = event.item_id]
                   ELSE w1
             w3 == JsonSend(w2, o.twilioConn,
                      [event |-> "media", streamSid |-> o.streamSid,
                       media |-> [payload |-> event.delta]])
         IN JsonSend(w3, o.twilioConn, [event |-> "mark", streamSid |-> o.streamSid])

\* case "response.output_item.done" with a function_call item, on socket c
OnFunctionCall(w, u, s, c, item) ==
    LET w1 == Track(w, s, "function_call", "system", <<"Function: ", item.name>>)
        r == HandleFunctionCall(item)
    IN CASE r.does = "throw" -> FunctionCatch(w1, s, item, r.message)
         [] r.does = "return" -> FunctionThen(w1, u, item, r.value)
         [] OTHER ->
              IF \/ Cardinality(w1.calls) >= MaxCalls
                 \/ \E k \in w1.calls : k.item.call_id = item.call_id
              THEN [w1 EXCEPT !.ok = FALSE]
              ELSE [w1 EXCEPT !.calls = @ \cup
                        {[userId |-> u, session |-> s, item |-> item, from |-> c]}]

\* handleModelMessage(data, userId) on socket c
HandleModelMessage(w, c, d) ==
    LET u == w.cu[c]
        w1 == GetUserSession(w, u)
        s == SessOf(w1, u)
        event == ParseMessage(d)
    IN IF IsNull(event) THEN w1
       ELSE LET w2 == JsonSend(w1, w1.obj[s].frontendConn, event) IN
            CASE event.type = "input_audio_buffer.speech_started" ->
                   LET w3 == IF w2.timers[u] >= w2.pool.timers THEN [w2 EXCEPT !.ok = FALSE]
                             ELSE [w2 EXCEPT !.timers[u] = @ + 1]
                   IN Track(w3, s, "user_speech", "user", <<"Speech started">>)
              [] event.type = "conversation.item.input_audio_transcription.completed" ->
                   Track(w2, s, "user_speech", "user", <<event.transcript>>)
              [] event.type = "response.audio.delta" -> OnAudioDelta(w2, s, event)
              [] event.type = "response.audio_transcript.delta" ->
                   Track(w2, s, "assistant_speech", "assistant", <<event.delta>>)
              [] event.type = "response.output_item.done" ->
                   \* item.type (line 436) of undefined
                   IF "item" \notin DOMAIN event THEN Throw(w2)
                   ELSE IF event.item.type = "message"
                   THEN Track(w2, s, "assistant_speech", "assistant", <<event.item.content>>)
                   ELSE OnFunctionCall(w2, u, s, c, event.item)
              [] OTHER -> w2

\* the payloads a session.update of the observer can carry, by name
ConfigDoc(p) ==
    IF p = "P2" THEN [voice |-> "coral", temperature |-> "0.6"] ELSE [voice |-> "verse"]

\* { ...defaults, ...config }
SessionConfig(saved) ==
    IF saved = NONE THEN DefaultConfig
    ELSE [k \in (DOMAIN DefaultConfig) \cup (DOMAIN ConfigDoc(saved)) |->
             IF k \in DOMAIN ConfigDoc(saved) THEN ConfigDoc(saved)[k] ELSE DefaultConfig[k]]

\* the open listener of a model socket: session is the object tryConnectModel held
OnModelOpen(w, c) ==
    LET s == w.cs[c] IN
    JsonSend(w, w.obj[s].modelConn,
             [type |-> "session.update", session |-> SessionConfig(w.obj[s].saved_config)])

-----------------------------------------------------------------------------
(* The observer link *)

Tokens == {"jwt_u1", "jwt_u2", "jwt_bad"}

\* the token is not verified: whoever connects is taken for the first user
ExtractUserIdFromToken_Trusting(token) == "u1"

\* extractUserIdFromToken: the sub claim of a token that verifies, else null
ExtractUserIdFromToken(token) ==
    CASE token = "jwt_u1" -> "u1"
      [] token = "jwt_u2" -> "u2"
      [] OTHER -> NONE

\* handleFrontendConnection(ws, token)
HandleFrontendConnection(w, c, token) ==
    LET u == ExtractUserIdFromToken(token) IN
    IF u = NONE THEN WsClose(w, c)
    ELSE LET w1 == GetUserSession(w, u)
             s == SessOf(w1, u)
             w2 == CleanupConnection(w1, w1.obj[s].frontendConn)
         IN [w2 EXCEPT !.obj[s].frontendConn = c, !.cu[c] = u, !.cs[c] = s]

FrontendMsgs ==
    { [type |-> "session.update", session |-> p] : p \in Configs }
    \cup { [type |-> "response.create"] }

FrontendData == { Json(m) : m \in FrontendMsgs } \cup {Garbage}

\* the configuration is kept only when it could be passed on to an open model link
HandleFrontendMessage_WhenOpen(w, c, d) ==
    LET u == w.cu[c]
        w1 == GetUserSession(w, u)
        s == SessOf(w1, u)
        msg == ParseMessage(d)
    IN IF IsNull(msg) THEN w1
       ELSE IF ~IsOpen(w1, w1.obj[s].modelConn) THEN w1
       ELSE LET w2 == JsonSend(w1, w1.obj[s].modelConn, msg)
            IN IF msg.type = "session.update"
               THEN [w2 EXCEPT !.obj[s].saved_config = msg.session]
               ELSE w2

\* handleFrontendMessage(data, userId)
HandleFrontendMessage(w, c, d) ==
    LET u == w.cu[c]
        w1 == GetUserSession(w, u)
        s == SessOf(w1, u)
        msg == ParseMessage(d)
    IN IF IsNull(msg) THEN w1
       ELSE LET w2 == IF IsOpen(w1, w1.obj[s].modelConn)
                      THEN JsonSend(w1, w1.obj[s].modelConn, msg)
                      ELSE w1
            IN IF msg.type = "session.update"
               THEN [w2 EXCEPT !.obj[s].saved_config = msg.session]
               ELSE w2

\* the close listener of an observer socket; session is the captured object
OnFrontendClose(w, c) ==
    LET s == w.cs[c]
        w1 == CleanupConnection(w, w.obj[s].frontendConn)
    IN [w1 EXCEPT !.obj[s].frontendConn = NONE]

-----------------------------------------------------------------------------
(* Outbound registration *)

\* associateOutboundCallWithPhoneNumber -> associateOutboundCall, startCallTracking
AssociateOutboundCall(w, u, callSid) ==
    LET w1 == GetUserSession(w, u)
        s == SessOf(w1, u)
        w2 == [w1 EXCEPT !.obj[s].callType = "outbound",
                         !.obj[s].outboundCallStatus = "initiating",
                         !.obj[s].callSid = callSid,
                         !.csid[callSid] = u]
    IN Emit(w2, [fn |-> "startCallTracking", callSid |-> callSid, userId |-> u,
                 phoneNumber |-> "+15550002", direction |-> "outbound"])

-----------------------------------------------------------------------------
(* The state after the server has started *)

Init ==
    /\ userSessions = [u \in Users |-> NoSess]
    /\ obj = [s \in SessIds |-> Blank]
    /\ callSidToUserId = [k \in CallSids |-> NONE]
    /\ readyState = [c \in Conns |-> FREE]
    /\ connUser = [c \in Conns |-> NONE]
    /\ connSess = [c \in Conns |-> NoSess]
    /\ timers = [u \in Users |-> 0]
    /\ calls = {}
    /\ ev = [op |-> "init"]
    /\ sent = <<>>
    /\ hist = <<>>
    /\ endCalls = [c \in TwilioConns |-> 0]
    /\ dialing = {}
    /\ stale = [u \in Users |-> 0]
    /\ pool = [twilio |-> Len(TwilioSeq), model |-> Len(ModelSeq), frontend |-> Len(FrontendSeq),
               timers |-> MaxTimers]

(* One action per handler *)

\* POST /outbound-call has created the call: initiateOutboundCall registers it
OutboundCall(u, callSid) ==
    LET w == AssociateOutboundCall(World, u, callSid) IN
    /\ w.ok
    /\ Commit(w, [op |-> "associate", userId |-> u, callSid |-> callSid])

\* deleteUserSession(userId), called by the embedding server
DeleteSession(u) ==
    Commit(DeleteUserSession(World, u), [op |-> "delete_session", userId |-> u])

\* initiateOutboundCall up to its await: the provider has created the call and named
\* it; the provider never gives two calls one identifier
CreateCall(u, callSid) ==
    /\ callSidToUserId[callSid] = NONE
    /\ \A k \in dialing : k.callSid # callSid
    /\ Commit([World EXCEPT !.dialing = @ \cup {[userId |-> u, callSid |-> callSid]}],
              [op |-> "create_call", userId |-> u, callSid |-> callSid])

\* initiateOutboundCall after its await: client.calls.create() has resolved with call.sid
CallCreated(k) ==
    /\ k \in dialing
    /\ Commit(AssociateOutboundCall([World EXCEPT !.dialing = @ \ {k}], k.userId, k.callSid),
              [op |-> "associate", userId |-> k.userId, callSid |-> k.callSid])

\* wss.on("connection") for /call: handleCallConnection(ws)
CallConnection ==
    LET c == FirstFree(World, TwilioSeq, pool.twilio) IN
    /\ c # NONE
    /\ Commit([World EXCEPT !.rs[c] = OPEN],
              [op |-> "call_connection", conn |-> c])

\* ws.on("message") of a telephony socket
TwilioMessage(c, d) ==
    LET w == HandleTwilioMessage(World, c, d) IN
    /\ readyState[c] \in {OPEN, CLOSING}
    /\ w.ok
    /\ Commit(w, [op |-> "twilio_message", conn |-> c, data |-> d, userId |-> connUser[c]])

\* ws.on("error", ws.close) of a telephony socket: the socket is closing, its close
\* event follows
TwilioError(c) ==
    /\ readyState[c] = OPEN
    /\ Commit(WsClose(World, c), [op |-> "twilio_error", conn |-> c, userId |-> connUser[c]])

\* ws.on("close") of a telephony socket: the listener of handleCallConnection only logs
TwilioClose(c) ==
    LET w0 == [World EXCEPT !.rs[c] = CLOSED]
        w == IF connSess[c] = NoSess THEN w0 ELSE OnTwilioClose(w0, c)
    IN /\ readyState[c] \in {OPEN, CLOSING}
       /\ Commit(Collect(w), [op |-> "twilio_close", conn |-> c, userId |-> connUser[c],
                               endCalls |-> w.endCalls[c]])

\* modelConn.on("open")
ModelOpen(c) ==
    /\ readyState[c] = CONNECTING
    /\ Commit(OnModelOpen([World EXCEPT !.rs[c] = OPEN], c),
              [op |-> "model_open", conn |-> c, userId |-> connUser[c]])

\* modelConn.on("message")
ModelMessage(c, d) ==
    LET w == HandleModelMessage(World, c, d) IN
    /\ readyState[c] \in {OPEN, CLOSING}
    /\ w.ok
    /\ Commit(w, [op |-> "model_message", conn |-> c, data |-> d, userId |-> connUser[c]])

\* modelConn.on("error"): the socket is closing, its close event follows
ModelError(c) ==
    /\ readyState[c] \in {CONNECTING, OPEN}
    /\ Commit(CloseModel([World EXCEPT !.rs[c] = CLOSING], connUser[c]),
              [op |-> "model_error", conn |-> c, userId |-> connUser[c]])

\* modelConn.on("close")
ModelClose(c) ==
    /\ readyState[c] \in {CONNECTING, OPEN, CLOSING}
    /\ Commit(Collect(CloseModel([World EXCEPT !.rs[c] = CLOSED], connUser[c])),
              [op |-> "model_close", conn |-> c, userId |-> connUser[c]])

\* the setTimeout callback of a speech_started event
TimerFire(u) ==
    /\ timers[u] > 0
    /\ Commit(HandleTruncation([World EXCEPT !.timers[u] = @ - 1], u),
              [op |-> "truncation", userId |-> u, stale |-> stale[u]])

\* the function handler a call awaits settles
FunctionDone(k, outcome) ==
    /\ k \in calls
    /\ Commit(Collect(FunctionThen([World EXCEPT !.calls = @ \ {k}], k.userId, k.item,
                                   AfterAwait(k.item, outcome))),
              [op |-> "function_done", call |-> k, outcome |-> outcome])

\* wss.on("connection") for /logs: without a token the socket is closed at once,
\* with a token handleFrontendConnection(ws, token) is called
FrontendConnection(token) ==
    LET c == FirstFree(World, FrontendSeq, pool.frontend)
        w0 == [World EXCEPT !.rs[c] = OPEN]
    IN /\ c # NONE
       /\ Commit(IF token = NONE THEN WsClose(w0, c)
                 ELSE HandleFrontendConnection(w0, c, token),
                 [op |-> "frontend_connection", conn |-> c, token |-> token])

\* ws.on("message") of an observer socket
FrontendMessage(c, d) ==
    /\ readyState[c] \in {OPEN, CLOSING}
    /\ connUser[c] # NONE
    /\ Commit(HandleFrontendMessage(World, c, d),
              [op |-> "frontend_message", conn |-> c, data |-> d, userId |-> connUser[c]])

\* ws.on("close") of an observer socket; a socket refused for its token has no listener
FrontendClose(c) ==
    LET w0 == [World EXCEPT !.rs[c] = CLOSED]
        w == IF connSess[c] = NoSess THEN w0 ELSE OnFrontendClose(w0, c)
    IN /\ readyState[c] \in {OPEN, CLOSING}
       /\ Commit(Collect(w), [op |-> "frontend_close", conn |-> c, userId |-> connUser[c]])

-----------------------------------------------------------------------------
(* The whole bridge: every handler, every input, every socket *)

NextAll ==
    \/ \E u \in Users, k \in CallSids : OutboundCall(u, k)
    \/ CallConnection
    \/ \E c \in TwilioConns : \E d \in TwilioData(c) : TwilioMessage(c, d)
    \/ \E c \in TwilioConns : TwilioClose(c)
    \/ \E c \in ModelConns : ModelOpen(c)
    \/ \E c \in ModelConns : \E d \in ModelData : ModelMessage(c, d)
    \/ \E c \in ModelConns : ModelError(c)
    \/ \E c \in ModelConns : ModelClose(c)
    \/ \E u \in Users : TimerFire(u)
    \/ \E k \in calls : \E o \in Outcomes : FunctionDone(k, o)
    \/ \E t \in Tokens : FrontendConnection(t)
    \/ \E c \in FrontendConns : \E d \in FrontendData : FrontendMessage(c, d)
    \/ \E c \in FrontendConns : FrontendClose(c)

SpecAll == Init /\ [][NextAll]_vars

-----------------------------------------------------------------------------
(* The calls of one user: registration, the telephony link, the model link, *)
(* audio in both directions and the barge-in timer.  A peer sends nothing  *)
(* on a socket the server has begun to close.                              *)

TheUser == "u1"

InitCall ==
    /\ userSessions = [u \in Users |-> NoSess]
    /\ obj = [s \in SessIds |-> Blank]
    /\ callSidToUserId = [k \in CallSids |-> NONE]
    /\ readyState = [c \in Conns |-> FREE]
    /\ connUser = [c \in Conns |-> NONE]
    /\ connSess = [c \in Conns |-> NoSess]
    /\ timers = [u \in Users |-> 0]
    /\ calls = {}
    /\ ev = [op |-> "init"]
    /\ sent = <<>>
    /\ hist = <<>>
    /\ endCalls = [c \in TwilioConns |-> 0]
    /\ dialing = {}
    /\ stale = [u \in Users |-> 0]
    /\ pool = [twilio |-> 2, model |-> 1, frontend |-> 0, timers |-> MaxTimers]

CallMsgs(c) ==
    { m \in TwilioMsgs(c) : m.event # "mark" /\ (m.event = "start" => m.start.from = NONE) }

AudioMsgs ==
    { [type |-> "input_audio_buffer.speech_started"],
      [type |-> "response.audio.delta", item_id |-> "i1", delta |-> "d1"],
      [type |-> "response.audio.delta", item_id |-> NONE, delta |-> "d1"] }

Next ==
    \/ \E k \in CallSids : OutboundCall(TheUser, k)
    \/ CallConnection
    \/ \E c \in TwilioConns : \E m \in CallMsgs(c) :
          readyState[c] = OPEN /\ TwilioMessage(c, Json(m))
    \/ \E c \in TwilioConns : TwilioClose(c)
    \/ \E c \in ModelConns : ModelOpen(c)
    \/ \E c \in ModelConns : \E m \in AudioMsgs :
          readyState[c] = OPEN /\ ModelMessage(c, Json(m))
    \/ \E c \in ModelConns : ModelError(c)
    \/ \E c \in ModelConns : ModelClose(c)
    \/ TimerFire(TheUser)

Spec == InitCall /\ [][Next]_vars

-----------------------------------------------------------------------------
(* The registrations and telephony links of two users: both register call  *)
(* identifiers, either can be called; no audio.                            *)

InitUsers ==
    /\ userSessions = [u \in Users |-> NoSess]
    /\ obj = [s \in SessIds |-> Blank]
    /\ callSidToUserId = [k \in CallSids |-> NONE]
    /\ readyState = [c \in Conns |-> FREE]
    /\ connUser = [c \in Conns |-> NONE]
    /\ connSess = [c \in Conns |-> NoSess]
    /\ timers = [u \in Users |-> 0]
    /\ calls = {}
    /\ ev = [op |-> "init"]
    /\ sent = <<>>
    /\ hist = <<>>
    /\ endCalls = [c \in TwilioConns |-> 0]
    /\ dialing = {}
    /\ stale = [u \in Users |-> 0]
    /\ pool = [twilio |-> 2, model |-> 1, frontend |-> 0, timers |-> MaxTimers]

UsersMsgs(c) == { m \in CallMsgs(c) : m.event \in {"start", "close"} }

NextUsers ==
    \/ \E u \in Users, k \in CallSids : OutboundCall(u, k)
    \/ CallConnection
    \/ \E c \in TwilioConns : \E m \in UsersMsgs(c) :
          readyState[c] = OPEN /\ TwilioMessage(c, Json(m))
    \/ \E c \in TwilioConns : TwilioClose(c)
    \/ \E c \in ModelConns : ModelOpen(c)
    \/ \E c \in ModelConns : ModelClose(c)

SpecUsers == InitUsers /\ [][NextUsers]_vars

-----------------------------------------------------------------------------
(* The function calls of one user: one telephony socket, a model link that  *)
(* can fail, close and be replaced while a function handler runs.           *)

InitTools ==
    /\ userSessions = [u \in Users |-> NoSess]
    /\ obj = [s \in SessIds |-> Blank]
    /\ callSidToUserId = [k \in CallSids |-> NONE]
    /\ readyState = [c \in Conns |-> FREE]
    /\ connUser = [c \in Conns |-> NONE]
    /\ connSess = [c \in Conns |-> NoSess]
    /\ timers = [u \in Users |-> 0]
    /\ calls = {}
    /\ ev = [op |-> "init"]
    /\ sent = <<>>
    /\ hist = <<>>
    /\ endCalls = [c \in TwilioConns |-> 0]
    /\ dialing = {}
    /\ stale = [u \in Users |-> 0]
    /\ pool = [twilio |-> 1, model |-> 2, frontend |-> 0, timers |-> MaxTimers]

ToolCallSid == "CA1"

ToolTwilioMsgs(c) ==
    { m \in TwilioMsgs(c) :
        \/ m.event = "close"
        \/ m.event = "start" /\ m.start.callSid = ToolCallSid /\ m.start.from = NONE }

ToolModelMsgs == { m \in ModelMsgs : m.type = "response.output_item.done" }

NextTools ==
    \/ OutboundCall(TheUser, ToolCallSid)
    \/ CallConnection
    \/ \E c \in TwilioConns : \E m \in ToolTwilioMsgs(c) :
          readyState[c] = OPEN /\ TwilioMessage(c, Json(m))
    \/ \E c \in TwilioConns : TwilioClose(c)
    \/ \E c \in ModelConns : ModelOpen(c)
    \/ \E c \in ModelConns : \E m \in ToolModelMsgs : ModelMessage(c, Json(m))
    \/ \E c \in ModelConns : ModelError(c)
    \/ \E c \in ModelConns : ModelClose(c)
    \/ \E k \in calls : \E o \in Outcomes : FunctionDone(k, o)

SpecTools == InitTools /\ [][NextTools]_vars

-----------------------------------------------------------------------------
(* Two users side by side.  The second user's call is set up first: it is  *)
(* registered, answered, its model link opens and its observer connects.   *)
(* Then the first user does everything a user can do, while the second     *)
(* user's call goes on (audio frames come in) until its telephony link     *)
(* closes.                                                                 *)

InitPair ==
    /\ userSessions = [u \in Users |-> NoSess]
    /\ obj = [s \in SessIds |-> Blank]
    /\ callSidToUserId = [k \in CallSids |-> NONE]
    /\ readyState = [c \in Conns |-> FREE]
    /\ connUser = [c \in Conns |-> NONE]
    /\ connSess = [c \in Conns |-> NoSess]
    /\ timers = [u \in Users |-> 0]
    /\ calls = {}
    /\ ev = [op |-> "init"]
    /\ sent = <<>>
    /\ hist = <<>>
    /\ endCalls = [c \in TwilioConns |-> 0]
    /\ dialing = {}
    /\ stale = [u \in Users |-> 0]
    /\ pool = [twilio |-> 2, model |-> 2, frontend |-> 2, timers |-> MaxTimers]

Bystander == "u2"

\* the call identifier the provider gave each user's call, and each user's token
CallSidOf(u) == IF u = "u1" THEN "CA1" ELSE "CA2"
TokenOf(u) == IF u = "u1" THEN "jwt_u1" ELSE "jwt_u2"

\* the second user's observer has connected: the last step of the set-up
StoodBy ==
    /\ userSessions[Bystander] # NoSess
    /\ obj[userSessions[Bystander]].frontendConn # NONE

PairTwilioMsgs(c) ==
    { m \in TwilioMsgs(c) :
        \/ m.event = "start" /\ m.start.from = NONE
        \/ m.event = "media" /\ m.media.timestamp = MaxTs }

PairModelMsgs ==
    { m \in ModelMsgs :
        \/ m.type = "input_audio_buffer.speech_started"
        \/ m.type = "response.audio.delta" /\ m.item_id = "i1"
        \/ m.type = "response.output_item.done" /\ m.item.type = "message"
        \/ /\ m.type = "response.output_item.done" /\ m.item.type = "function_call"
           /\ m.item.name \in FunctionNames /\ JsonParses(m.item.arguments)
           /\ m.item.call_id = "call_1" }

PairFrontendMsgs == { m \in FrontendMsgs : m.type = "session.update" }

\* the user a "start" would be bound to has no telephony link: one call at a time
NoCallYet(c, m) ==
    LET u == callSidToUserId[m.start.callSid]
    IN connUser[c] = NONE /\ u # NONE /\ userSessions[u] # NoSess
          => obj[userSessions[u]].twilioConn = NONE

\* the user has no observer link: one observer at a time
NoObserverYet(u) == userSessions[u] # NoSess => obj[userSessions[u]].frontendConn = NONE

\* the second user's call is set up
SetUp ==
    /\ ~StoodBy
    /\ \/ callSidToUserId[CallSidOf(Bystander)] = NONE
          /\ OutboundCall(Bystander, CallSidOf(Bystander))
       \/ callSidToUserId[CallSidOf(Bystander)] # NONE
          /\ \A c \in TwilioConns : readyState[c] = FREE
          /\ CallConnection
       \/ \E c \in TwilioConns :
             /\ readyState[c] = OPEN /\ connUser[c] = NONE
             /\ TwilioMessage(c, Json([event |-> "start",
                    start |-> [callSid |-> CallSidOf(Bystander),
                               streamSid |-> StreamOf(c), from |-> NONE]]))
       \/ \E c \in ModelConns : ModelOpen(c)
       \/ /\ \E c \in ModelConns : readyState[c] = OPEN
          /\ FrontendConnection(TokenOf(Bystander))

NextPair ==
    \/ SetUp
    \/ StoodBy /\ OutboundCall(TheUser, CallSidOf(TheUser))
    \/ /\ StoodBy
       /\ \A c \in TwilioConns : readyState[c] # FREE => connUser[c] = Bystander
       /\ CallConnection
    \/ \E c \in TwilioConns : \E m \in PairTwilioMsgs(c) :
          /\ StoodBy
          /\ readyState[c] = OPEN
          /\ m.event = "start" => NoCallYet(c, m)
          /\ TwilioMessage(c, Json(m))
    \/ \E c \in TwilioConns : StoodBy /\ TwilioClose(c)
    \/ \E c \in ModelConns : StoodBy /\ ModelOpen(c)
    \/ \E c \in ModelConns : \E m \in PairModelMsgs :
          StoodBy /\ readyState[c] = OPEN /\ connUser[c] = TheUser /\ ModelMessage(c, Json(m))
    \/ \E c \in ModelConns : StoodBy /\ connUser[c] = TheUser /\ ModelError(c)
    \/ \E c \in ModelConns : StoodBy /\ connUser[c] = TheUser /\ ModelClose(c)
    \/ StoodBy /\ TimerFire(TheUser)
    \/ \E k \in calls : \E o \in Outcomes : StoodBy /\ FunctionDone(k, o)
    \/ StoodBy /\ NoObserverYet(TheUser) /\ FrontendConnection(TokenOf(TheUser))
    \/ \E c \in FrontendConns : \E m \in PairFrontendMsgs :
          StoodBy /\ readyState[c] = OPEN /\ connUser[c] = TheUser /\ FrontendMessage(c, Json(m))
    \/ \E c \in FrontendConns : StoodBy /\ connUser[c] = TheUser /\ FrontendClose(c)

SpecPair == InitPair /\ [][NextPair]_vars

-----------------------------------------------------------------------------
(* Calls that reach the bridge with and without a registration: one user   *)
(* registers one call; "start" messages carry either call identifier, with *)
(* or without the caller's number.                                         *)

InitInbound ==
    /\ userSessions = [u \in Users |-> NoSess]
    /\ obj = [s \in SessIds |-> Blank]
    /\ callSidToUserId = [k \in CallSids |-> NONE]
    /\ readyState = [c \in Conns |-> FREE]
    /\ connUser = [c \in Conns |-> NONE]
    /\ connSess = [c \in Conns |-> NoSess]
    /\ timers = [u \in Users |-> 0]
    /\ calls = {}
    /\ ev = [op |-> "init"]
    /\ sent = <<>>
    /\ hist = <<>>
    /\ endCalls = [c \in TwilioConns |-> 0]
    /\ dialing = {}
    /\ stale = [u \in Users |-> 0]
    /\ pool = [twilio |-> 2, model |-> 1, frontend |-> 0, timers |-> MaxTimers]

InboundMsgs(c) == { m \in TwilioMsgs(c) : m.event \in {"start", "stop", "close"} }

NextInbound ==
    \/ OutboundCall(TheUser, ToolCallSid)
    \/ CallConnection
    \/ \E c \in TwilioConns : \E m \in InboundMsgs(c) :
          readyState[c] = OPEN /\ TwilioMessage(c, Json(m))
    \/ \E c \in TwilioConns : TwilioClose(c)
    \/ \E c \in ModelConns : ModelOpen(c)
    \/ \E c \in ModelConns : ModelClose(c)

SpecInbound == InitInbound /\ [][NextInbound]_vars

-----------------------------------------------------------------------------
(* The observers: web clients connect with a token, send messages, go away *)
(* and come back while an earlier socket of theirs is still around.        *)

InitObserver ==
    /\ userSessions = [u \in Users |-> NoSess]
    /\ obj = [s \in SessIds |-> Blank]
    /\ callSidToUserId = [k \in CallSids |-> NONE]
    /\ readyState = [c \in Conns |-> FREE]
    /\ connUser = [c \in Conns |-> NONE]
    /\ connSess = [c \in Conns |-> NoSess]
    /\ timers = [u \in Users |-> 0]
    /\ calls = {}
    /\ ev = [op |-> "init"]
    /\ sent = <<>>
    /\ hist = <<>>
    /\ endCalls = [c \in TwilioConns |-> 0]
    /\ dialing = {}
    /\ stale = [u \in Users |-> 0]
    /\ pool = [twilio |-> 0, model |-> 0, frontend |-> 2, timers |-> MaxTimers]

NextObserver ==
    \/ \E t \in Tokens \cup {NONE} : FrontendConnection(t)
    \/ \E c \in FrontendConns : \E d \in FrontendData :
          readyState[c] = OPEN /\ FrontendMessage(c, d)
    \/ \E c \in FrontendConns : FrontendClose(c)

SpecObserver == InitObserver /\ [][NextObserver]_vars

-----------------------------------------------------------------------------
(* Placing a call: the provider creates the call, then answers it by       *)
(* connecting and sending "start" with the identifier it gave the call;    *)
(* the bridge registers the identifier when calls.create() resolves.       *)

InitDial ==
    /\ userSessions = [u \in Users |-> NoSess]
    /\ obj = [s \in SessIds |-> Blank]
    /\ callSidToUserId = [k \in CallSids |-> NONE]
    /\ readyState = [c \in Conns |-> FREE]
    /\ connUser = [c \in Conns |-> NONE]
    /\ connSess = [c \in Conns |-> NoSess]
    /\ timers = [u \in Users |-> 0]
    /\ calls = {}
    /\ ev = [op |-> "init"]
    /\ sent = <<>>
    /\ hist = <<>>
    /\ endCalls = [c \in TwilioConns |-> 0]
    /\ dialing = {}
    /\ stale = [u \in Users |-> 0]
    /\ pool = [twilio |-> 2, model |-> 1, frontend |-> 0, timers |-> MaxTimers]

\* the provider has created a call with this identifier
Created(callSid) ==
    callSidToUserId[callSid] # NONE \/ \E k \in dialing : k.callSid = callSid

\* the provider sends "start" only for a call it has created
DialMsgs(c) ==
    { m \in TwilioMsgs(c) :
        \/ m.event = "start" /\ m.start.from = NONE /\ Created(m.start.callSid)
        \/ m.event = "stop" }

NextDial ==
    \/ \E k \in CallSids : CreateCall(TheUser, k)
    \/ \E k \in dialing : CallCreated(k)
    \/ CallConnection
    \/ \E c \in TwilioConns : \E m \in DialMsgs(c) :
          readyState[c] = OPEN /\ TwilioMessage(c, Json(m))
    \/ \E c \in TwilioConns : TwilioClose(c)
    \/ \E c \in ModelConns : ModelOpen(c)
    \/ \E c \in ModelConns : ModelClose(c)

SpecDial == InitDial /\ [][NextDial]_vars

-----------------------------------------------------------------------------
(* Barge-in: the caller starts to speak, more than once within the grace   *)
(* delay, while audio of the assistant and media frames of the caller keep *)
(* coming in.                                                              *)

\* the truncation timers that can be pending at once here
BargeTimers == MaxTimers + 1

InitBarge ==
    /\ userSessions = [u \in Users |-> NoSess]
    /\ obj = [s \in SessIds |-> Blank]
    /\ callSidToUserId = [k \in CallSids |-> NONE]
    /\ readyState = [c \in Conns |-> FREE]
    /\ connUser = [c \in Conns |-> NONE]
    /\ connSess = [c \in Conns |-> NoSess]
    /\ timers = [u \in Users |-> 0]
    /\ calls = {}
    /\ ev = [op |-> "init"]
    /\ sent = <<>>
    /\ hist = <<>>
    /\ endCalls = [c \in TwilioConns |-> 0]
    /\ dialing = {}
    /\ stale = [u \in Users |-> 0]
    /\ pool = [twilio |-> 1, model |-> 1, frontend |-> 0, timers |-> BargeTimers]

\* media timestamps grow with the stream: 1 .. MaxTs + 1 after the 0 of "start"
BargeTwilioMsgs(c) ==
    { [event |-> "start",
       start |-> [callSid |-> ToolCallSid, streamSid |-> StreamOf(c), from |-> NONE]] }
    \cup { [event |-> "media", media |-> [timestamp |-> ts, payload |-> PayloadOf(ts)]] :
             ts \in 1..(MaxTs + 1) }

BargeModelMsgs ==
    { m \in ModelMsgs :
        \/ m.type = "input_audio_buffer.speech_started"
        \/ m.type = "response.audio.delta" /\ m.item_id # NONE }

NextBarge ==
    \/ OutboundCall(TheUser, ToolCallSid)
    \/ CallConnection
    \/ \E c \in TwilioConns : \E m \in BargeTwilioMsgs(c) :
          readyState[c] = OPEN /\ TwilioMessage(c, Json(m))
    \/ \E c \in TwilioConns : TwilioClose(c)
    \/ \E c \in ModelConns : ModelOpen(c)
    \/ \E c \in ModelConns : \E m \in BargeModelMsgs :
          readyState[c] = OPEN /\ ModelMessage(c, Json(m))
    \/ \E c \in ModelConns : ModelClose(c)
    \/ TimerFire(TheUser)

SpecBarge == InitBarge /\ [][NextBarge]_vars

-----------------------------------------------------------------------------
(* Deleting a session: a user with a call and an observer is deleted once,  *)
(* at any moment; the close events of the links follow, and messages that   *)
(* were on their way still come in.                                         *)

InitDelete ==
    /\ userSessions = [u \in Users |-> NoSess]
    /\ obj = [s \in SessIds |-> Blank]
    /\ callSidToUserId = [k \in CallSids |-> NONE]
    /\ readyState = [c \in Conns |-> FREE]
    /\ connUser = [c \in Conns |-> NONE]
    /\ connSess = [c \in Conns |-> NoSess]
    /\ timers = [u \in Users |-> 0]
    /\ calls = {}
    /\ ev = [op |-> "init"]
    /\ sent = <<>>
    /\ hist = <<>>
    /\ endCalls = [c \in TwilioConns |-> 0]
    /\ dialing = {}
    /\ stale = [u \in Users |-> 0]
    /\ pool = [twilio |-> 1, model |-> 1, frontend |-> 1, timers |-> MaxTimers]

\* a session object that was taken out of the registry
Deleted(s) == obj[s].userId # NONE /\ userSessions[obj[s].userId] # s

DeleteTwilioMsgs(c) ==
    { m \in TwilioMsgs(c) :
        m.event = "start" /\ m.start.callSid = ToolCallSid /\ m.start.from = NONE }

NextDelete ==
    \/ OutboundCall(TheUser, ToolCallSid)
    \/ CallConnection
    \/ \E c \in TwilioConns : \E m \in DeleteTwilioMsgs(c) :
          readyState[c] = OPEN /\ TwilioMessage(c, Json(m))
    \/ \E c \in TwilioConns : TwilioClose(c)
    \/ \E c \in ModelConns : ModelOpen(c)
    \/ \E c \in ModelConns : ModelClose(c)
    \/ FrontendConnection(TokenOf(TheUser))
    \/ \E c \in FrontendConns : \E m \in PairFrontendMsgs : FrontendMessage(c, Json(m))
    \/ \E c \in FrontendConns : FrontendClose(c)
    \/ \E u \in Users : (\A s \in SessIds : ~Deleted(s)) /\ DeleteSession(u)

SpecDelete == InitDelete /\ [][NextDelete]_vars

-----------------------------------------------------------------------------
(* The configuration of the model session: the observer of one user comes   *)
(* and goes and submits configurations, before, during and after calls; the *)
(* model link opens, fails, closes and is opened again.                     *)

InitConfig ==
    /\ userSessions = [u \in Users |-> NoSess]
    /\ obj = [s \in SessIds |-> Blank]
    /\ callSidToUserId = [k \in CallSids |-> NONE]
    /\ readyState = [c \in Conns |-> FREE]
    /\ connUser = [c \in Conns |-> NONE]
    /\ connSess = [c \in Conns |-> NoSess]
    /\ timers = [u \in Users |-> 0]
    /\ calls = {}
    /\ ev = [op |-> "init"]
    /\ sent = <<>>
    /\ hist = <<>>
    /\ endCalls = [c \in TwilioConns |-> 0]
    /\ dialing = {}
    /\ stale = [u \in Users |-> 0]
    /\ pool = [twilio |-> 1, model |-> 2, frontend |-> 1, timers |-> MaxTimers]

\* the configurations the observer submits
ConfigPayloads == {"P1", "P2"}

ConfigFrontendMsgs ==
    { [type |-> "session.update", session |-> p] : p \in ConfigPayloads }

NextConfig ==
    \/ OutboundCall(TheUser, ToolCallSid)
    \/ CallConnection
    \/ \E c \in TwilioConns : \E m \in ToolTwilioMsgs(c) :
          readyState[c] = OPEN /\ TwilioMessage(c, Json(m))
    \/ \E c \in TwilioConns : TwilioClose(c)
    \/ \E c \in ModelConns : ModelOpen(c)
    \/ \E c \in ModelConns : ModelError(c)
    \/ \E c \in ModelConns : ModelClose(c)
    \/ FrontendConnection(TokenOf(TheUser))
    \/ \E c \in FrontendConns : \E m \in ConfigFrontendMsgs :
          readyState[c] = OPEN /\ FrontendMessage(c, Json(m))
    \/ \E c \in FrontendConns : FrontendClose(c)

SpecConfig == InitConfig /\ [][NextConfig]_vars

-----------------------------------------------------------------------------
(* A model link that is not open yet: one call whose model link fails and   *)
(* is opened again while media frames, observer events, a truncation timer *)
(* and a function call are under way.                                       *)

InitLinkUp ==
    /\ userSessions = [u \in Users |-> NoSess]
    /\ obj = [s \in SessIds |-> Blank]
    /\ callSidToUserId = [k \in CallSids |-> NONE]
    /\ readyState = [c \in Conns |-> FREE]
    /\ connUser = [c \in Conns |-> NONE]
    /\ connSess = [c \in Conns |-> NoSess]
    /\ timers = [u \in Users |-> 0]
    /\ calls = {}
    /\ ev = [op |-> "init"]
    /\ sent = <<>>
    /\ hist = <<>>
    /\ endCalls = [c \in TwilioConns |-> 0]
    /\ dialing = {}
    /\ stale = [u \in Users |-> 0]
    /\ pool = [twilio |-> 1, model |-> 2, frontend |-> 1, timers |-> MaxTimers]

LinkUpFrontendMsgs == { m \in FrontendMsgs : m.type = "response.create" }

NextLinkUp ==
    \/ OutboundCall(TheUser, ToolCallSid)
    \/ CallConnection
    \/ \E c \in TwilioConns : \E m \in PairTwilioMsgs(c) :
          /\ readyState[c] = OPEN
          /\ m.event = "start" => m.start.callSid = ToolCallSid
          /\ TwilioMessage(c, Json(m))
    \/ \E c \in ModelConns : ModelOpen(c)
    \/ \E c \in ModelConns : \E m \in PairModelMsgs :
          readyState[c] = OPEN /\ ModelMessage(c, Json(m))
    \/ \E c \in ModelConns : ModelError(c)
    \/ \E c \in ModelConns : ModelClose(c)
    \/ TimerFire(TheUser)
    \/ \E k \in calls : \E o \in Outcomes : FunctionDone(k, o)
    \/ NoObserverYet(TheUser) /\ FrontendConnection(TokenOf(TheUser))
    \/ \E c \in FrontendConns : \E m \in LinkUpFrontendMsgs :
          readyState[c] = OPEN /\ FrontendMessage(c, Json(m))
    \/ \E c \in FrontendConns : FrontendClose(c)

SpecLinkUp == InitLinkUp /\ [][NextLinkUp]_vars

-----------------------------------------------------------------------------
(* The relay of the assistant's audio to the caller: audio fragments come   *)
(* in from the model, with and without an item identifier, while the        *)
(* telephony link is open, fails and closes.                                *)

InitRelay ==
    /\ userSessions = [u \in Users |-> NoSess]
    /\ obj = [s \in SessIds |-> Blank]
    /\ callSidToUserId = [k \in CallSids |-> NONE]
    /\ readyState = [c \in Conns |-> FREE]
    /\ connUser = [c \in Conns |-> NONE]
    /\ connSess = [c \in Conns |-> NoSess]
    /\ timers = [u \in Users |-> 0]
    /\ calls = {}
    /\ ev = [op |-> "init"]
    /\ sent = <<>>
    /\ hist = <<>>
    /\ endCalls = [c \in TwilioConns |-> 0]
    /\ dialing = {}
    /\ stale = [u \in Users |-> 0]
    /\ pool = [twilio |-> 1, model |-> 1, frontend |-> 0, timers |-> MaxTimers]

RelayTwilioMsgs(c) ==
    { m \in PairTwilioMsgs(c) : m.event = "start" => m.start.callSid = ToolCallSid }
    \cup { [event |-> "close"] }

RelayModelMsgs == { m \in ModelMsgs : m.type = "response.audio.delta" }

NextRelay ==
    \/ OutboundCall(TheUser, ToolCallSid)
    \/ CallConnection
    \/ \E c \in TwilioConns : \E m \in RelayTwilioMsgs(c) :
          readyState[c] = OPEN /\ TwilioMessage(c, Json(m))
    \/ \E c \in TwilioConns : TwilioError(c)
    \/ \E c \in TwilioConns : TwilioClose(c)
    \/ \E c \in ModelConns : ModelOpen(c)
    \/ \E c \in ModelConns : \E m \in RelayModelMsgs :
          readyState[c] = OPEN /\ ModelMessage(c, Json(m))
    \/ \E c \in ModelConns : ModelClose(c)

SpecRelay == InitRelay /\ [][NextRelay]_vars

-----------------------------------------------------------------------------
(* Messages nobody expects: texts that are not JSON, events the bridge does *)
(* not know, events that lack the payload they announce, and messages on a  *)
(* telephony socket that no call has been bound to, on the three links of   *)
(* one user.                                                                *)

InitNoise ==
    /\ userSessions = [u \in Users |-> NoSess]
    /\ obj = [s \in SessIds |-> Blank]
    /\ callSidToUserId = [k \in CallSids |-> NONE]
    /\ readyState = [c \in Conns |-> FREE]
    /\ connUser = [c \in Conns |-> NONE]
    /\ connSess = [c \in Conns |-> NoSess]
    /\ timers = [u \in Users |-> 0]
    /\ calls = {}
    /\ ev = [op |-> "init"]
    /\ sent = <<>>
    /\ hist = <<>>
    /\ endCalls = [c \in TwilioConns |-> 0]
    /\ dialing = {}
    /\ stale = [u \in Users |-> 0]
    /\ pool = [twilio |-> 1, model |-> 1, frontend |-> 1, timers |-> MaxTimers]

\* every event of the telephony link, known or not ("mark"), with a registered or an
\* unregistered call identifier, and "start" and "media" without their payload
NoiseTwilioMsgs(c) ==
    { m \in TwilioMsgs(c) :
        /\ m.event = "start" => m.start.from = NONE
        /\ m.event = "media" => m.media.timestamp = MaxTs }
    \cup { [event |-> "start"], [event |-> "media"] }

\* an audio fragment, an event the bridge does not know, a finished message, and a
\* response.output_item.done without its item
NoiseModelMsgs ==
    { m \in ModelMsgs :
        \/ m.type = "session.created"
        \/ m.type = "response.audio.delta" /\ m.item_id = "i1"
        \/ m.type = "response.output_item.done" /\ m.item.type = "message" }
    \cup { [type |-> "response.output_item.done"] }

NextNoise ==
    \/ OutboundCall(TheUser, ToolCallSid)
    \/ CallConnection
    \/ \E c \in TwilioConns : \E d \in { Json(m) : m \in NoiseTwilioMsgs(c) } \cup {Garbage} :
          readyState[c] = OPEN /\ TwilioMessage(c, d)
    \/ \E c \in TwilioConns : TwilioClose(c)
    \/ \E c \in ModelConns : ModelOpen(c)
    \/ \E c \in ModelConns : \E d \in { Json(m) : m \in NoiseModelMsgs } \cup {Garbage} :
          readyState[c] = OPEN /\ ModelMessage(c, d)
    \/ \E c \in ModelConns : ModelClose(c)
    \/ NoObserverYet(TheUser) /\ FrontendConnection(TokenOf(TheUser))
    \/ \E c \in FrontendConns : \E d \in FrontendData :
          readyState[c] = OPEN /\ FrontendMessage(c, d)
    \/ \E c \in FrontendConns : FrontendClose(c)

SpecNoise == InitNoise /\ [][NextNoise]_vars

-----------------------------------------------------------------------------
(* Another call is placed during a call: the user registers outbound calls  *)
(* at any moment, while every telephony stream that comes in is the stream  *)
(* of the first call (its "start" carries that call's identifier).          *)

RedialModelMsgs ==
    { m \in ModelMsgs : m.type = "conversation.item.input_audio_transcription.completed" }

NextRedial ==
    \/ \E k \in CallSids : OutboundCall(TheUser, k)
    \/ CallConnection
    \/ \E c \in TwilioConns : \E m \in InboundMsgs(c) :
          /\ readyState[c] = OPEN
          /\ m.event = "start" => m.start.callSid = ToolCallSid /\ m.start.from = NONE
          /\ TwilioMessage(c, Json(m))
    \/ \E c \in TwilioConns : TwilioClose(c)
    \/ \E c \in ModelConns : ModelOpen(c)
    \/ \E c \in ModelConns : \E m \in RedialModelMsgs :
          readyState[c] = OPEN /\ ModelMessage(c, Json(m))
    \/ \E c \in ModelConns : ModelClose(c)

SpecRedial == InitRelay /\ [][NextRedial]_vars

-----------------------------------------------------------------------------
(* Reading the last step *)

\* the last step handled the telephony message `event` on a socket
LastTwilio(event) ==
    /\ ev.op = "twilio_message"
    /\ ev.data.kind = "json"
    /\ ev.data.value.event = event

\* the last step handled the model event `type`
LastModel(type) ==
    /\ ev.op = "model_message"
    /\ ev.data.kind = "json"
    /\ ev.data.value.type = type

\* the messages of the last step that went to a model socket
SentToModel == SelectSeq(sent, LAMBDA x : x.to \in ModelConns)

HasSession(u) == userSessions[u] # NoSess
Session(u) == obj[userSessions[u]]

\* a socket on which nothing can be sent any more
Closed(c) == readyState[c] \in {CLOSING, CLOSED, FREE}

-----------------------------------------------------------------------------
(* C1 - C7: the telephony link, the audio relay and the truncation *)

\* C1: a "start" carrying a registered call identifier, on a socket that was not yet
\* identified, binds the socket to the session of the registered user; when the handler
\* has run that session has callType outbound, outboundCallStatus connected and the
\* streamSid of the message.
C1_StartBindsRegisteredCall ==
    ( /\ LastTwilio("start")
      /\ ev.userId = NONE
      /\ callSidToUserId[ev.data.value.start.callSid] # NONE )
    => LET u == callSidToUserId[ev.data.value.start.callSid] IN
       /\ HasSession(u)
       /\ connUser[ev.conn] = u
       /\ connSess[ev.conn] = userSessions[u]
       /\ Session(u).twilioConn = ev.conn
       /\ Session(u).callType = "outbound"
       /\ Session(u).outboundCallStatus = "connected"
       /\ Session(u).streamSid = ev.data.value.start.streamSid

\* the second user's call is bound while the first user is on a call of their own
C1_Witness ==
    /\ LastTwilio("start")
    /\ ev.userId = NONE
    /\ ev.data.value.start.callSid = "CA2"
    /\ callSidToUserId["CA2"] = "u2"
    /\ callSidToUserId["CA1"] = "u1"
    /\ HasSession("u1") /\ HasSession("u2")
    /\ Session("u1").twilioConn \in TwilioConns \ {ev.conn}
    /\ Session("u1").outboundCallStatus = "connected"
    /\ Session("u2").twilioConn = ev.conn
    /\ Session("u2").outboundCallStatus = "connected"
    /\ Session("u2").streamSid = StreamOf(ev.conn)

\* C2: a "start" whose call identifier has no registration (and that carries no caller
\* number) closes the socket, creates no session and starts no call-history entry.
C2_UnregisteredStartIsRefused ==
    [][ ( /\ ev'.op = "twilio_message"
          /\ ev'.data.kind = "json"
          /\ ev'.data.value.event = "start"
          /\ ev'.data.value.start.from = NONE
          /\ ev'.userId = NONE
          /\ callSidToUserId[ev'.data.value.start.callSid] = NONE )
        => ( /\ readyState'[ev'.conn] = CLOSING
             /\ connUser'[ev'.conn] = NONE
             /\ userSessions' = userSessions
             /\ obj' = obj
             /\ hist' = <<>>
             /\ sent' = <<>> ) ]_vars

C2_Witness ==
    /\ LastTwilio("start")
    /\ ev.userId = NONE
    /\ callSidToUserId[ev.data.value.start.callSid] = NONE
    /\ readyState[ev.conn] = CLOSING
    /\ \A u \in Users : ~HasSession(u)

\* C3: from the "start" of an identified socket to the close of that socket, whatever
\* "stop" and "close" messages came in between, endCallTracking was invoked exactly once.
C3_EndTrackingOnce ==
    (ev.op = "twilio_close" /\ ev.userId # NONE) => ev.endCalls = 1

\* C4: when the telephony link of an identified socket has closed (a "close" message, or
\* the close of the socket), the session has no streamSid, lastAssistantItem,
\* responseStartTimestamp or latestMediaTimestamp, its model link is closed and
\* detached, and an outbound session has outboundCallStatus disconnected.
LinkClosedFor(u) ==
    \/ ev.op = "twilio_close" /\ ev.userId = u
    \/ LastTwilio("close") /\ ev.userId = u

C4_ClosedLinkClearsSession ==
    \A u \in Users :
        (LinkClosedFor(u) /\ HasSession(u)) =>
            /\ Session(u).streamSid = NONE
            /\ Session(u).lastAssistantItem = NONE
            /\ Session(u).responseStartTimestamp = UNDEF
            /\ Session(u).latestMediaTimestamp = UNDEF
            /\ Session(u).modelConn = NONE
            /\ \A m \in ModelConns : connUser[m] = u => Closed(m)
            /\ Session(u).callType = "outbound" => Session(u).outboundCallStatus = "disconnected"

\* C5: when the truncation runs with an assistant item recorded, a response start T0
\* recorded (0 included) and the latest media timestamp T1, the truncate instruction
\* carries audio_end_ms = T1 - T0, and the item and the response start are empty after.
C5_TruncationOffset ==
    [][ \A u \in Users :
        ( /\ ev'.op = "truncation" /\ ev'.userId = u
          /\ HasSession(u)
          /\ Session(u).lastAssistantItem # NONE
          /\ Session(u).responseStartTimestamp # UNDEF
          /\ Session(u).latestMediaTimestamp # UNDEF )
        => ( /\ obj'[userSessions[u]].lastAssistantItem = NONE
             /\ obj'[userSessions[u]].responseStartTimestamp = UNDEF
             /\ IsOpen(World, Session(u).modelConn) =>
                   /\ Len(sent') >= 1
                   /\ sent'[1].to = Session(u).modelConn
                   /\ sent'[1].msg.type = "conversation.item.truncate"
                   /\ sent'[1].msg.item_id = Session(u).lastAssistantItem
                   /\ sent'[1].msg.audio_end_ms =
                          Session(u).latestMediaTimestamp - Session(u).responseStartTimestamp ) ]_vars

\* C6: the truncation, run when no assistant item is recorded, sends nothing on any
\* link, emits nothing to the call history and changes no field of any session.
C6_TruncationWithoutItem ==
    [][ \A u \in Users :
        ( /\ ev'.op = "truncation" /\ ev'.userId = u
          /\ HasSession(u)
          /\ Session(u).lastAssistantItem = NONE )
        => ( /\ sent' = <<>>
             /\ hist' = <<>>
             /\ obj' = obj
             /\ userSessions' = userSessions ) ]_vars

\* a response start is recorded, no item is: the truncation has run and has changed nothing
C6_Witness ==
    /\ ev.op = "truncation"
    /\ HasSession(ev.userId)
    /\ Session(ev.userId).lastAssistantItem = NONE
    /\ Session(ev.userId).responseStartTimestamp = 1
    /\ IsOpen(World, Session(ev.userId).modelConn)
    /\ sent = <<>>

\* C7: a media frame handled while the session's model link is absent or not open puts
\* no message on any model socket, and is not sent later: an input_audio_buffer.append
\* is only ever sent in the step that handles the media frame whose audio it carries.
C7_MediaDroppedWhileModelNotOpen ==
    /\ \A u \in Users :
          ( /\ LastTwilio("media") /\ connUser[ev.conn] = u
            /\ HasSession(u)
            /\ ~IsOpen(World, Session(u).modelConn) )
          => SentToModel = <<>>
    /\ \A i \in DOMAIN sent :
          (sent[i].to \in ModelConns /\ sent[i].msg.type = "input_audio_buffer.append")
          => /\ LastTwilio("media")
             /\ sent[i].msg.audio = ev.data.value.media.payload
             /\ Len(SentToModel) = 1

C7_Witness ==
    /\ LastTwilio("media")
    /\ connUser[ev.conn] = TheUser
    /\ Session(TheUser).modelConn # NONE
    /\ readyState[Session(TheUser).modelConn] = CONNECTING
    /\ Session(TheUser).latestMediaTimestamp = 1
    /\ sent = <<>>

-----------------------------------------------------------------------------
(* C8 - C10: function calls *)

\* the last step handled a function_call item
LastFunctionCall ==
    /\ LastModel("response.output_item.done")
    /\ ev.data.value.item.type = "function_call"

\* message x is the function output of call `id`
IsOutputFor(x, id) ==
    /\ x.type = "conversation.item.create"
    /\ x.item.type = "function_call_output"
    /\ x.item.call_id = id

\* the last step sent, on model socket mc and nowhere else, the output `text` of call
\* `id` and then response.create
AnsweredOn(mc, id, text) ==
    /\ Len(sent) = 2
    /\ sent[1].to = mc /\ IsOutputFor(sent[1].msg, id)
    /\ sent[1].msg.item.output = <<"\"">> \o text \o <<"\"">>
    /\ sent[2].to = mc /\ sent[2].msg = [type |-> "response.create"]

\* the last step answered a call on some model socket, with some text
Answered(id) ==
    /\ Len(SentToModel) = 2
    /\ IsOutputFor(SentToModel[1].msg, id)
    /\ SentToModel[2].msg = [type |-> "response.create"]
    /\ SentToModel[1].to = SentToModel[2].to

\* the text between the quotes of an output
Unquoted(output) == SubSeq(output, 2, Len(output) - 1)

\* the text is an error result
IsErrorText(text) == Len(text) >= 1 /\ text[1] = "{\"error\":\""

\* C8: a function_call item whose name is not in the registry yields an error result
\* that goes to the model as the function output of that call (here: even when the
\* item came in on the session's model link and that link is open).
C8_UnknownFunctionAnswered ==
    ( /\ LastFunctionCall
      /\ ev.data.value.item.name \notin FunctionNames
      /\ HasSession(ev.userId)
      /\ Session(ev.userId).modelConn = ev.conn
      /\ IsOpen(World, ev.conn) )
    => /\ Answered(ev.data.value.item.call_id)
       /\ IsErrorText(Unquoted(SentToModel[1].msg.item.output))

\* C9 as stated: a function call whose handler resolves is answered by exactly one
\* function_call_output and then exactly one response.create, whatever became of the
\* session's links while the handler ran.
C9_ResolvedCallAlwaysAnswered ==
    (ev.op = "function_done" /\ ev.outcome.ok) => Answered(ev.call.item.call_id)

\* C9, amended: a function call whose handler resolves is answered by exactly one
\* function_call_output carrying the handler's result and then exactly one
\* response.create, both on the session's model link, when that link is set and open
\* as the handler resolves; otherwise nothing is sent.
C9_ResolvedCallAnsweredOnOpenLink ==
    (ev.op = "function_done" /\ ev.outcome.ok) =>
        LET u == ev.call.userId IN
        /\ HasSession(u)
        /\ IF IsOpen(World, Session(u).modelConn)
           THEN AnsweredOn(Session(u).modelConn, ev.call.item.call_id, ev.outcome.value)
           ELSE sent = <<>>

C9_Witness ==
    /\ ev.op = "function_done" /\ ev.outcome.ok
    /\ IsOpen(World, Session(ev.call.userId).modelConn)
    /\ Session(ev.call.userId).modelConn # ev.call.from
    /\ Len(sent) = 2

\* the last step is one in which a function call failed: its arguments did not parse,
\* or its handler threw
ArgumentsDidNotParse ==
    /\ LastFunctionCall
    /\ ev.data.value.item.name \in FunctionNames
    /\ ~JsonParses(ev.data.value.item.arguments)

HandlerThrew == ev.op = "function_done" /\ ~ev.outcome.ok

\* C10 as stated: the error result of a call whose arguments do not parse, or whose
\* handler throws, is sent to the model as a function output, followed by response.create.
C10_FailedCallAlwaysAnswered ==
    /\ ArgumentsDidNotParse => Answered(ev.data.value.item.call_id)
    /\ HandlerThrew => Answered(ev.call.item.call_id)

\* C10, amended: such a call yields an error result (naming the reason when the handler
\* threw); when the session's model link is set and open at that moment the result is
\* sent on it as a function output followed by response.create, otherwise nothing is sent.
C10_FailedCallAnsweredOnOpenLink ==
    /\ ArgumentsDidNotParse =>
          /\ HasSession(ev.userId)
          /\ IF IsOpen(World, Session(ev.userId).modelConn)
             THEN /\ AnsweredOn(Session(ev.userId).modelConn, ev.data.value.item.call_id,
                                 Unquoted(sent[1].msg.item.output))
                  /\ IsErrorText(Unquoted(sent[1].msg.item.output))
             ELSE sent = <<>>
    /\ HandlerThrew =>
          /\ HasSession(ev.call.userId)
          /\ IF IsOpen(World, Session(ev.call.userId).modelConn)
             THEN /\ Answered(ev.call.item.call_id)
                  /\ sent[1].to = Session(ev.call.userId).modelConn
                  /\ IsErrorText(Unquoted(sent[1].msg.item.output))
                  /\ \E j \in DOMAIN sent[1].msg.item.output :
                        sent[1].msg.item.output[j] = ev.outcome.message
                  /\ \E j \in DOMAIN sent[1].msg.item.output :
                        sent[1].msg.item.output[j] = ev.call.item.name
             ELSE sent = <<>>

C10_Witness ==
    /\ HandlerThrew
    /\ IsOpen(World, Session(ev.call.userId).modelConn)
    /\ Len(sent) = 2
    /\ IsErrorText(Unquoted(sent[1].msg.item.output))

-----------------------------------------------------------------------------
(* C11 - C20: isolation, the observer and telephony links, reconnection, timers *)

\* the user an event belongs to: the userId its listener captured, the user a "start"
\* on an unidentified socket resolves to (csid: the registrations when it is handled),
\* the user of a token, of a registration, of a timer, of a running function call
OwnerOf(e, csid) ==
    CASE e.op = "twilio_message" ->
           IF e.userId # NONE THEN e.userId
           ELSE IF e.data.kind = "json" /\ e.data.value.event = "start"
           THEN csid[e.data.value.start.callSid]
           ELSE NONE
      [] e.op = "function_done" -> e.call.userId
      [] e.op = "frontend_connection" -> ExtractUserIdFromToken(e.token)
      [] e.op \in {"init", "call_connection"} -> NONE
      [] OTHER -> e.userId

\* the sockets attached to the session of v, or created for v
LinksOf(v) ==
    { c \in Conns : connUser[c] = v }
    \cup (IF userSessions[v] = NoSess THEN {}
          ELSE { obj[userSessions[v]].twilioConn, obj[userSessions[v]].frontendConn,
                 obj[userSessions[v]].modelConn } \ {NONE})

\* C11: session isolation. A step that handles an event of one user leaves the registry
\* entry and every field of every other user's session as they were, sends nothing on a
\* link of another user's session, and does not close such a link.
C11_SessionIsolation ==
    [][ \A v \in Users :
          v # OwnerOf(ev', callSidToUserId) =>
             /\ userSessions'[v] = userSessions[v]
             /\ userSessions[v] # NoSess => obj'[userSessions[v]] = obj[userSessions[v]]
             /\ \A i \in DOMAIN sent' : sent'[i].to \notin LinksOf(v)
             /\ \A c \in LinksOf(v) : readyState'[c] = readyState[c] ]_vars

\* a function result of the first user goes out while the second user's session holds
\* three open links
C11_Witness ==
    /\ ev.op = "function_done" /\ ev.call.userId = TheUser
    /\ Len(sent) = 2
    /\ HasSession(Bystander)
    /\ IsOpen(World, Session(Bystander).twilioConn)
    /\ IsOpen(World, Session(Bystander).modelConn)
    /\ IsOpen(World, Session(Bystander).frontendConn)
    /\ HasSession(TheUser)
    /\ IsOpen(World, Session(TheUser).frontendConn)

\* C12: a "start" on a socket that is not yet identified, whose call identifier has no
\* registration but which carries the caller's number, is accepted as an inbound call:
\* the socket is bound to a session, that session has callType inbound, and the call
\* history is started with direction inbound.
C12_InboundStartAccepted ==
    ( /\ LastTwilio("start")
      /\ ev.userId = NONE
      /\ ev.data.value.start.from # NONE
      /\ callSidToUserId[ev.data.value.start.callSid] = NONE )
    => /\ connUser[ev.conn] # NONE
       /\ HasSession(connUser[ev.conn])
       /\ Session(connUser[ev.conn]).twilioConn = ev.conn
       /\ Session(connUser[ev.conn]).callType = "inbound"
       /\ \E i \in DOMAIN hist :
             /\ hist[i].fn = "startCallTracking"
             /\ hist[i].direction = "inbound"

\* C13: when an observer with a valid token binds for a user whose session holds an
\* observer link, the prior link is closed and the new socket is the session's observer
\* link; and when the close event of a socket that is no longer the session's observer
\* link is handled, the link the session holds stays attached and open.
C13_ObserverReplaced ==
    [][ /\ \A u \in Users :
            ( /\ ev'.op = "frontend_connection"
              /\ ExtractUserIdFromToken(ev'.token) = u
              /\ HasSession(u)
              /\ Session(u).frontendConn # NONE )
            => /\ readyState'[Session(u).frontendConn] \in {CLOSING, CLOSED}
               /\ obj'[userSessions'[u]].frontendConn = ev'.conn
               /\ readyState'[ev'.conn] = OPEN
        /\ \A u \in Users :
            ( /\ ev'.op = "frontend_close"
              /\ ev'.userId = u
              /\ HasSession(u)
              /\ Session(u).frontendConn \notin {NONE, ev'.conn}
              /\ IsOpen(World, Session(u).frontendConn) )
            => /\ obj'[userSessions'[u]].frontendConn = Session(u).frontendConn
               /\ readyState'[Session(u).frontendConn] = OPEN ]_vars

\* C14: when a telephony socket is identified for a user whose session holds a prior
\* telephony link, the prior link is closed and the new socket is the session's
\* telephony link; and when the close event of a socket that is no longer the session's
\* telephony link is handled, the link the session holds stays attached and open, and
\* the streamSid and the model link of the session are as they were.
C14_TelephonyReplaced ==
    [][ /\ \A u \in Users :
            ( /\ ev'.op = "twilio_message" /\ ev'.data.kind = "json"
              /\ ev'.data.value.event = "start"
              /\ ev'.userId = NONE
              /\ callSidToUserId[ev'.data.value.start.callSid] = u
              /\ HasSession(u)
              /\ Session(u).twilioConn # NONE )
            => /\ readyState'[Session(u).twilioConn] \in {CLOSING, CLOSED}
               /\ obj'[userSessions'[u]].twilioConn = ev'.conn
        /\ \A u \in Users :
            ( /\ ev'.op = "twilio_close"
              /\ ev'.userId = u
              /\ HasSession(u)
              /\ Session(u).twilioConn \notin {NONE, ev'.conn}
              /\ IsOpen(World, Session(u).twilioConn) )
            => /\ obj'[userSessions'[u]].twilioConn = Session(u).twilioConn
               /\ readyState'[Session(u).twilioConn] = OPEN
               /\ obj'[userSessions'[u]].streamSid = Session(u).streamSid
               /\ obj'[userSessions'[u]].modelConn = Session(u).modelConn
               /\ Session(u).modelConn # NONE =>
                     readyState'[Session(u).modelConn] = readyState[Session(u).modelConn] ]_vars

\* the sockets of one kind created for (or bound to) user u that are connecting or open
Live(kind, u) == { c \in kind : connUser[c] = u /\ readyState[c] \in {CONNECTING, OPEN} }

\* C15: in every reachable state a session has at most one live (connecting or open)
\* telephony socket, at most one live model socket and at most one live observer socket.
C15_OneLiveLinkPerKind ==
    \A u \in Users :
        /\ Cardinality(Live(TwilioConns, u)) <= 1
        /\ Cardinality(Live(ModelConns, u)) <= 1
        /\ Cardinality(Live(FrontendConns, u)) <= 1

\* the telephony stream of u is active on socket c, and its model link is gone (it
\* failed or was closed: the error and close listeners detach it)
ModelLinkLost(u, c) ==
    /\ HasSession(u)
    /\ Session(u).twilioConn = c
    /\ readyState[c] = OPEN
    /\ Session(u).streamSid # NONE
    /\ Session(u).openAIApiKey # NONE
    /\ Session(u).modelConn = NONE

\* C16: with the telephony stream active and the model link lost, the next "start" and
\* the next media frame each make a fresh model connection attempt: when the handler
\* has run the session holds a model socket that is connecting.
C16_ReconnectOnStartOrMedia ==
    [][ \A u \in Users :
          ( /\ ev'.op = "twilio_message" /\ ev'.data.kind = "json"
            /\ ev'.data.value.event \in {"start", "media"}
            /\ ev'.userId = u
            /\ ModelLinkLost(u, ev'.conn) )
          => /\ obj'[userSessions'[u]].modelConn # NONE
             /\ readyState'[obj'[userSessions'[u]].modelConn] = CONNECTING ]_vars

\* C17: when a response.output_item.done has been handled (the assistant's response is
\* complete), responseStartTimestamp is empty, so that the first audio fragment of the
\* next response records the media timestamp current at that moment.
C17_ResponseStartClearedOnCompletion ==
    \A u \in Users :
        ( /\ LastModel("response.output_item.done")
          /\ ev.userId = u
          /\ HasSession(u) )
        => Session(u).responseStartTimestamp = UNDEF

\* C18: whenever a "start" is handled on a socket that is not yet identified, the call
\* identifier it carries (that of a call the provider created for an outbound request)
\* is registered: the registration took effect before the "start" could be handled.
C18_RegisteredBeforeStart ==
    (LastTwilio("start") /\ ev.userId = NONE)
    => callSidToUserId[ev.data.value.start.callSid] # NONE

\* the truncation of the last step was set before an earlier truncation ran: it is the
\* attempt of a second speech-start within the grace delay
SecondAttempt(e) == e.op = "truncation" /\ e.stale > 0

\* the step changes no session and sends and records nothing
NoEffect ==
    /\ sent' = <<>>
    /\ hist' = <<>>
    /\ obj' = obj
    /\ userSessions' = userSessions

\* C19: the truncation attempt of a second speech-start, run after the first has
\* executed, sends nothing and changes nothing, whatever audio fragments and media
\* frames were handled between the two firings.
C19_SecondAttemptAlwaysIdle ==
    [][ SecondAttempt(ev') => NoEffect ]_vars

\* C20: the truncation reads the session when the timer fires. The truncate instruction
\* goes to the model link the session holds at the firing, names the item recorded then
\* and carries the offset from the response start to the latest media timestamp of that
\* moment; and a media frame handled while a timer is pending updates that timestamp.
C20_TruncationReadsAtExecution ==
    [][ \A u \in Users :
          /\ ( /\ ev'.op = "truncation" /\ ev'.userId = u
               /\ HasSession(u)
               /\ sent' # <<>> )
             => /\ sent'[1].to = Session(u).modelConn
                /\ sent'[1].msg.type = "conversation.item.truncate"
                /\ sent'[1].msg.item_id = Session(u).lastAssistantItem
                /\ sent'[1].msg.audio_end_ms =
                       Session(u).latestMediaTimestamp - Session(u).responseStartTimestamp
          /\ ( /\ ev'.op = "twilio_message" /\ ev'.userId = u
               /\ ev'.data.kind = "json" /\ ev'.data.value.event = "media"
               /\ timers[u] > 0 )
             => /\ userSessions'[u] # NoSess
                /\ obj'[userSessions'[u]].latestMediaTimestamp =
                       ev'.data.value.media.timestamp ]_vars

\* a truncation has gone out whose offset counts a media frame that came in after the
\* response had started
C20_Witness ==
    /\ ev.op = "truncation"
    /\ Len(sent) = 3
    /\ sent[1].msg.type = "conversation.item.truncate"
    /\ sent[1].msg.audio_end_ms = MaxTs
    /\ Session(ev.userId).latestMediaTimestamp = MaxTs + 1

-----------------------------------------------------------------------------
(* C21 - C30: teardown, the registry, the configuration and the relays *)

\* the telephony link of u has been torn down: the session is gone or holds no
\* telephony link
TornDown(u) == ~HasSession(u) \/ Session(u).twilioConn = NONE

\* C21: a truncation that fires after the telephony link has been torn down sends no
\* instruction on a model connection, emits nothing to the call history and neither
\* changes nor re-creates a session.
C21_LateTruncationIdle ==
    [][ (ev'.op = "truncation" /\ TornDown(ev'.userId)) => NoEffect ]_vars

\* the stream of telephony socket c is running for u: a "start" bound c to the session
\* of u and c has seen neither a close message nor its close event since
Streaming(u, c) ==
    /\ HasSession(u)
    /\ connUser[c] = u
    /\ readyState[c] = OPEN
    /\ Session(u).twilioConn = c
    /\ Session(u).streamSid = StreamOf(c)

\* the step ends the stream of socket c (its stop or close message, its close event) or
\* starts a stream (a "start" on any socket)
EndsOrStarts(e, c) ==
    \/ e.op = "twilio_close" /\ e.conn = c
    \/ /\ e.op = "twilio_message" /\ e.conn = c /\ e.data.kind = "json"
       /\ e.data.value.event \in {"stop", "close"}
    \/ /\ e.op = "twilio_message" /\ e.data.kind = "json"
       /\ e.data.value.event = "start"

\* the step handles a media frame of socket c whose timestamp is behind the session's
BackwardFrame(e, u, c) ==
    /\ e.op = "twilio_message" /\ e.conn = c /\ e.data.kind = "json"
    /\ e.data.value.event = "media"
    /\ e.data.value.media.timestamp < Session(u).latestMediaTimestamp

\* C22: while the stream of a telephony socket is running, latestMediaTimestamp of its
\* session never decreases (checked for frames that come in with timestamps that do
\* not go back, as a telephony clock delivers them).
C22_MediaTimestampMonotone ==
    [][ \A u \in Users : \A c \in TwilioConns :
          ( /\ Streaming(u, c)
            /\ ~EndsOrStarts(ev', c)
            /\ ~BackwardFrame(ev', u, c) )
          => /\ userSessions'[u] = userSessions[u]
             /\ obj'[userSessions[u]].latestMediaTimestamp >= Session(u).latestMediaTimestamp
      ]_vars

\* a link of the session of u is connecting or open
HasLiveLink(u) ==
    \E c \in {Session(u).twilioConn, Session(u).frontendConn, Session(u).modelConn} \ {NONE} :
        readyState[c] \in {CONNECTING, OPEN}

\* a call identifier is registered for u and its telephony connection has not come yet
AwaitingCall(u) ==
    /\ \E k \in CallSids : callSidToUserId[k] = u
    /\ Session(u).outboundCallStatus = "initiating"

\* C23: in every reachable state a session is in the registry only if one of its three
\* links is live or a registration of the user still awaits its telephony connection.
C23_SessionOnlyWhileInUse ==
    \A u \in Users : HasSession(u) => (HasLiveLink(u) \/ AwaitingCall(u))

\* the links a session holds
Links(o) == {o.twilioConn, o.frontendConn, o.modelConn} \ {NONE}

\* the step handles the close event of a link created for the deleted session of u
ClosesDeletedLink(e, u) ==
    /\ e.op \in {"twilio_close", "model_close", "frontend_close"}
    /\ userSessions[u] = NoSess
    /\ connUser[e.conn] = u
    /\ connSess[e.conn] # NoSess /\ Deleted(connSess[e.conn])

\* C24: deleteUserSession closes the three links of the session and removes it from the
\* registry; the registry still has no session for the user when the close events of
\* those links are handled; for a user without a session it changes nothing.
C24_DeleteRemovesSession ==
    [][ \A u \in Users :
          /\ (ev'.op = "delete_session" /\ ev'.userId = u /\ HasSession(u))
             => /\ userSessions'[u] = NoSess
                /\ \A c \in Links(Session(u)) : readyState'[c] \in {CLOSING, CLOSED}
          /\ ClosesDeletedLink(ev', u)
             => /\ userSessions'[u] = NoSess
                /\ readyState'[ev'.conn] \in {CLOSED, FREE}
          /\ (ev'.op = "delete_session" /\ ev'.userId = u /\ ~HasSession(u))
             => /\ UNCHANGED <<userSessions, obj, readyState, callSidToUserId>>
                /\ sent' = <<>> /\ hist' = <<>>
      ]_vars

\* the step handles a session.update of the observer of u
ConfigSubmitted(e, u) ==
    /\ e.op = "frontend_message" /\ e.userId = u
    /\ e.data.kind = "json" /\ e.data.value.type = "session.update"

\* the step handles the end of a telephony or model link of u
LinkEnds(e, u) ==
    /\ \/ e.op \in {"twilio_close", "model_close", "model_error"}
       \/ /\ e.op = "twilio_message" /\ e.data.kind = "json"
          /\ e.data.value.event = "close"
    /\ e.userId = u

\* cfg is the default configuration overridden key by key by the document of payload p
Overrides(cfg, p) ==
    LET doc == IF p = NONE THEN <<>> ELSE ConfigDoc(p) IN
    /\ DOMAIN cfg = (DOMAIN DefaultConfig) \cup (DOMAIN doc)
    /\ \A k \in DOMAIN cfg : cfg[k] = IF k \in DOMAIN doc THEN doc[k] ELSE DefaultConfig[k]

ProducesForModel(e, u) ==
    /\ e.op \in {"twilio_message", "frontend_message", "truncation", "function_done"}
    /\ OwnerOf(e, callSidToUserId) = u

\* the model link of u is still connecting
ModelConnecting(u) ==
    /\ HasSession(u)
    /\ Session(u).modelConn # NONE
    /\ readyState[Session(u).modelConn] = CONNECTING

\* C26: nothing is sent on a model socket before its open event. Every message of a step
\* that goes to a model socket goes to one that was open before the step, or is sent by
\* the open listener of that socket; what a media frame, an observer event, a truncation
\* or a function result produces while the model link is connecting goes to no model
\* socket; and when the link opens only the session configuration is sent, nothing of
\* what was produced before.
C26_NothingBeforeOpen ==
    [][ /\ \A i \in DOMAIN sent' :
              sent'[i].to \in ModelConns
              => \/ readyState[sent'[i].to] = OPEN
                 \/ ev'.op = "model_open" /\ ev'.conn = sent'[i].to
        /\ \A u \in Users :
              (ModelConnecting(u) /\ ProducesForModel(ev', u))
              => \A i \in DOMAIN sent' : sent'[i].to \notin ModelConns
        /\ ev'.op = "model_open"
              => /\ Len(sent') <= 1
                 /\ \A i \in DOMAIN sent' : sent'[i].msg.type = "session.update"
      ]_vars

\* a function call has been answered while the model link that replaced the failed one
\* was still connecting: nothing went out
C26_Witness ==
    /\ ev.op = "function_done"
    /\ sent = <<>>
    /\ ModelConnecting(ev.call.userId)
    /\ ev.call.from # Session(ev.call.userId).modelConn

\* what the listener or callback of event e does to a world
Handle(w, e) ==
    CASE e.op = "associate" -> AssociateOutboundCall(w, e.userId, e.callSid)
      [] e.op = "call_connection" -> [w EXCEPT !.rs[e.conn] = OPEN]
      [] e.op = "twilio_message" -> HandleTwilioMessage(w, e.conn, e.data)
      [] e.op = "twilio_error" -> WsClose(w, e.conn)
      [] e.op = "twilio_close" ->
           LET w0 == [w EXCEPT !.rs[e.conn] = CLOSED]
           IN Collect(IF w.cs[e.conn] = NoSess THEN w0 ELSE OnTwilioClose(w0, e.conn))
      [] e.op = "model_open" -> OnModelOpen([w EXCEPT !.rs[e.conn] = OPEN], e.conn)
      [] e.op = "model_message" -> HandleModelMessage(w, e.conn, e.data)
      [] e.op = "model_error" -> CloseModel([w EXCEPT !.rs[e.conn] = CLOSING], w.cu[e.conn])
      [] e.op = "model_close" ->
           Collect(CloseModel([w EXCEPT !.rs[e.conn] = CLOSED], w.cu[e.conn]))
      [] e.op = "truncation" -> HandleTruncation([w EXCEPT !.timers[e.userId] = @ - 1], e.userId)
      [] e.op = "function_done" ->
           Collect(FunctionThen([w EXCEPT !.calls = @ \ {e.call}], e.call.userId, e.call.item,
                                AfterAwait(e.call.item, e.outcome)))
      [] OTHER -> w

\* the steps of the observer: its connection, its messages, its close
ObserverOps == {"frontend_connection", "frontend_message", "frontend_close"}

\* a world in which no session has an observer link
Unobserved(w) ==
    [w EXCEPT !.obj = [s \in SessIds |-> [w.obj[s] EXCEPT !.frontendConn = NONE]]]

\* what a call consists of: the sessions without their observer link (a user without a
\* session is a user with a new one), the registrations, the telephony and model
\* sockets, the timers, the running function calls, and what was sent on the telephony
\* and model links and to the call history
CallView(w) ==
    [ sessions |-> [u \in Users |->
                      IF w.reg[u] = NoSess THEN NewSession(u)
                      ELSE [w.obj[w.reg[u]] EXCEPT !.frontendConn = NONE]],
      csid |-> w.csid,
      rs |-> [c \in TwilioConns \cup ModelConns |-> w.rs[c]],
      timers |-> w.timers,
      calls |-> { [item |-> k.item, from |-> k.from, userId |-> k.userId] : k \in w.calls },
      sent |-> SelectSeq(w.sent, LAMBDA x : x.to \notin FrontendConns),
      hist |-> w.hist ]

\* the world the last step left
Now == [World EXCEPT !.sent = sent, !.hist = hist]

\* the messages of a step that went to socket c
SentTo(q, c) == SelectSeq(q, LAMBDA x : x.to = c)

\* C27: a model event that parses is sent once, as it is, to the observer link of the
\* session when that link is open, and to no observer socket otherwise; and the observer
\* is invisible to the call: the connection and the close of an observer change nothing
\* of the call, and every other step does to the call exactly what it would have done
\* had no observer link been attached.
C27_ObserverMirrorsWithoutInterference ==
    [][ /\ \A u \in Users :
              (ev'.op = "model_message" /\ ev'.userId = u /\ ev'.data.kind = "json")
              => LET fc == IF HasSession(u) THEN Session(u).frontendConn ELSE NONE
                 IN IF IsOpen(World, fc)
                    THEN /\ SentTo(sent', fc) = <<[to |-> fc, msg |-> ev'.data.value]>>
                         /\ \A i \in DOMAIN sent' : sent'[i].to \in FrontendConns
                                                       => sent'[i].to = fc
                    ELSE \A i \in DOMAIN sent' : sent'[i].to \notin FrontendConns
        /\ ev'.op \in {"frontend_connection", "frontend_close"}
              => CallView(Now') = [CallView(World) EXCEPT !.sent = <<>>, !.hist = <<>>]
        /\ ev'.op \notin ObserverOps
              => /\ CallView(Now') = CallView(Handle(World, ev'))
                 /\ CallView(Now') = CallView(Handle(Unobserved(World), ev'))
      ]_vars

\* an audio fragment of the model was mirrored to the open observer link and relayed to
\* the caller
C27_Witness ==
    /\ LastModel("response.audio.delta")
    /\ Len(sent) = 3
    /\ sent[1].to \in FrontendConns
    /\ sent[1].msg = ev.data.value
    /\ sent[2].to \in TwilioConns
    /\ sent[3].to \in TwilioConns

\* the step handles an audio fragment for u, whose session has a telephony link and a
\* stream identifier
FragmentFor(e, u) ==
    /\ e.op = "model_message" /\ e.userId = u
    /\ e.data.kind = "json" /\ e.data.value.type = "response.audio.delta"
    /\ HasSession(u)
    /\ Session(u).twilioConn # NONE
    /\ Session(u).streamSid # NONE

\* the media frame and the mark that relay a fragment on telephony socket c
Relayed(c, streamSid, event) ==
    << [to |-> c, msg |-> [event |-> "media", streamSid |-> streamSid,
                           media |-> [payload |-> event.delta]]],
       [to |-> c, msg |-> [event |-> "mark", streamSid |-> streamSid]] >>

\* what a step sent on telephony sockets
SentToTwilio(q) == SelectSeq(q, LAMBDA x : x.to \in TwilioConns)

\* C28 as stated: for every audio fragment handled while the session has a telephony
\* link and a stream identifier, one media frame with the fragment and the session's
\* streamSid goes to the telephony link, then one mark, and lastAssistantItem becomes
\* the item identifier of the fragment.
C28_FragmentAlwaysRelayed ==
    [][ \A u \in Users :
          FragmentFor(ev', u)
          => /\ SentToTwilio(sent') =
                   Relayed(Session(u).twilioConn, Session(u).streamSid, ev'.data.value)
             /\ obj'[userSessions'[u]].lastAssistantItem = ev'.data.value.item_id ]_vars

\* C28, amended: when the telephony link is open the media frame and then the mark go
\* out on it, and nothing else goes to a telephony socket; when the link is attached but
\* no longer open (it failed and its close event has not been handled) nothing is sent;
\* in both cases lastAssistantItem becomes the item identifier of the fragment when it
\* carries one and is left as it was when it carries none.
C28_FragmentRelayedOnOpenLink ==
    [][ \A u \in Users :
          FragmentFor(ev', u)
          => /\ SentToTwilio(sent') =
                   IF readyState[Session(u).twilioConn] = OPEN
                   THEN Relayed(Session(u).twilioConn, Session(u).streamSid, ev'.data.value)
                   ELSE <<>>
             /\ obj'[userSessions'[u]].lastAssistantItem =
                   IF ev'.data.value.item_id # NONE THEN ev'.data.value.item_id
                   ELSE Session(u).lastAssistantItem ]_vars

\* a fragment was handled after the telephony link had failed and before its close
\* event: nothing was relayed, the item was recorded
C28_Witness ==
    /\ LastModel("response.audio.delta")
    /\ HasSession(ev.userId)
    /\ Session(ev.userId).twilioConn # NONE
    /\ readyState[Session(ev.userId).twilioConn] = CLOSING
    /\ Session(ev.userId).streamSid # NONE
    /\ sent = <<>>
    /\ Session(ev.userId).lastAssistantItem = "i2"
    /\ ev.data.value.item_id = "i2"

\* C29: when the truncation fires with an assistant item and a response start recorded
\* and the model link open, the model link is sent exactly three messages, in this
\* order: conversation.item.truncate for lastAssistantItem, input_audio_buffer.clear,
\* and the conversation.item.create that tells the model it was interrupted.
C29_TruncationSendsThree ==
    [][ \A u \in Users :
          ( /\ ev'.op = "truncation" /\ ev'.userId = u
            /\ HasSession(u)
            /\ Session(u).lastAssistantItem # NONE
            /\ Session(u).responseStartTimestamp # UNDEF
            /\ IsOpen(World, Session(u).modelConn) )
          => /\ Len(sent') = 3
             /\ \A i \in 1..3 : sent'[i].to = Session(u).modelConn
             /\ sent'[1].msg.type = "conversation.item.truncate"
             /\ sent'[1].msg.item_id = Session(u).lastAssistantItem
             /\ sent'[2].msg = [type |-> "input_audio_buffer.clear"]
             /\ sent'[3].msg = InterruptNotice ]_vars

\* the step handles the error or the close event of a model socket of u
ModelLinkFails(e, u) == e.op \in {"model_error", "model_close"} /\ e.userId = u

\* C30: when a model socket of a session errors or closes, modelConn is cleared and
\* nothing else of the session changes; the telephony and observer links stay as they
\* are, nothing is sent and no call-history notification (no end of call) is made.
C30_ModelFailureClearsOnlyModelConn ==
    [][ \A u \in Users :
          (ModelLinkFails(ev', u) /\ HasSession(u))
          => /\ userSessions'[u] = userSessions[u]
             /\ obj'[userSessions[u]] = [Session(u) EXCEPT !.modelConn = NONE]
             /\ \A c \in {Session(u).twilioConn, Session(u).frontendConn} \ {NONE} :
                   readyState'[c] = readyState[c]
             /\ sent' = <<>>
             /\ hist' = <<>> ]_vars

\* the model link has failed in the middle of a response, with the observer watching:
\* the call, the stream, the recorded item and response start and the observer link are
\* all still there
C30_Witness ==
    /\ ev.op = "model_error"
    /\ HasSession(ev.userId)
    /\ Session(ev.userId).modelConn = NONE
    /\ IsOpen(World, Session(ev.userId).twilioConn)
    /\ IsOpen(World, Session(ev.userId).frontendConn)
    /\ Session(ev.userId).streamSid # NONE
    /\ Session(ev.userId).lastAssistantItem = "i1"
    /\ Session(ev.userId).responseStartTimestamp = MaxTs
    /\ Session(ev.userId).latestMediaTimestamp = MaxTs
    /\ Session(ev.userId).outboundCallStatus = "connected"

-----------------------------------------------------------------------------
(* C31 - C40 *)

\* the step handles the close of a telephony socket of u, or the close or the error of
\* a model socket of u
CallLinkEnds(e, u) ==
    e.op \in {"twilio_close", "model_close", "model_error"} /\ e.userId = u

\* the step handles the close of an observer socket of u
ObserverLinkEnds(e, u) == e.op = "frontend_close" /\ e.userId = u

\* C31: the observer link and the call are independent.  A telephony close, a model
\* close or a model error leaves the session in the registry and its observer link
\* attached, in the state it was in; an observer close changes no field of the session
\* other than frontendConn, leaves the telephony and the model socket as they were, and
\* sends and records nothing.
C31_ObserverIndependentOfCall ==
    [][ \A u \in Users :
          HasSession(u) =>
            LET s == userSessions[u]
                o == obj[s]
            IN /\ CallLinkEnds(ev', u) =>
                    /\ userSessions'[u] = s
                    /\ obj'[s].frontendConn = o.frontendConn
                    /\ o.frontendConn # NONE =>
                          readyState'[o.frontendConn] = readyState[o.frontendConn]
               /\ ObserverLinkEnds(ev', u) =>
                    /\ userSessions'[u] = s
                    /\ obj'[s] = [o EXCEPT !.frontendConn = obj'[s].frontendConn]
                    /\ \A c \in {o.twilioConn, o.modelConn} \ {NONE} :
                          readyState'[c] = readyState[c]
                    /\ sent' = <<>>
                    /\ hist' = <<>> ]_vars

\* a call with a model link has just ended by the close of its telephony socket, and
\* the observer of the user is still attached and open
C31_Witness ==
    /\ ev.op = "twilio_close"
    /\ ev.userId = TheUser
    /\ HasSession(TheUser)
    /\ Session(TheUser).twilioConn = NONE
    /\ Session(TheUser).modelConn = NONE
    /\ \E m \in ModelConns : connUser[m] = TheUser /\ readyState[m] = CLOSING
    /\ IsOpen(World, Session(TheUser).frontendConn)

\* the step handles a "start" on telephony socket c, which no call has been bound to
StartOnNewSocket(e, c) ==
    /\ e.op = "twilio_message" /\ e.conn = c
    /\ e.data.kind = "json" /\ e.data.value.event = "start"
    /\ connUser[c] = NONE

\* the call of u was answered on a telephony socket that has since ended
CallEndedOnce(u) == HasSession(u) /\ Session(u).outboundCallStatus = "disconnected"

\* C32: no step removes the registration of a call identifier, and when the telephony
\* socket a registered call was bound to has ended, a "start" carrying the same
\* identifier on a new socket binds that socket to the same user's session and a new
\* model socket is created for it.
C32_ReconnectResolvesAgain ==
    [][ /\ \A k \in CallSids :
              callSidToUserId[k] # NONE => callSidToUserId'[k] = callSidToUserId[k]
        /\ \A c \in TwilioConns, u \in Users :
              ( /\ StartOnNewSocket(ev', c)
                /\ callSidToUserId[ev'.data.value.start.callSid] = u
                /\ CallEndedOnce(u) )
              => /\ userSessions'[u] = userSessions[u]
                 /\ connUser'[c] = u
                 /\ obj'[userSessions[u]].twilioConn = c
                 /\ \E m \in ModelConns :
                       /\ obj'[userSessions[u]].modelConn = m
                       /\ readyState[m] = FREE
                       /\ readyState'[m] = CONNECTING ]_vars

\* the only telephony socket has just been bound by its "start" (the call status was
\* updated in this step), and a model socket of an earlier binding of the call is still
\* closing while the new one connects
C32_Witness ==
    /\ LastTwilio("start")
    /\ \E i \in DOMAIN hist : hist[i].fn = "updateCallStatus"
    /\ HasSession(TheUser)
    /\ Session(TheUser).twilioConn = ev.conn
    /\ Session(TheUser).modelConn = ModelSeq[2]
    /\ readyState[ModelSeq[2]] = CONNECTING
    /\ readyState[ModelSeq[1]] = CLOSING
    /\ connUser[ModelSeq[1]] = TheUser

\* the step leaves the registry, the sessions, the registrations, the sockets, the
\* timers and the running function calls as they were, and sends and records nothing
Untouched ==
    /\ userSessions' = userSessions
    /\ obj' = obj
    /\ callSidToUserId' = callSidToUserId
    /\ readyState' = readyState
    /\ connUser' = connUser
    /\ connSess' = connSess
    /\ timers' = timers
    /\ calls' = calls
    /\ sent' = <<>>
    /\ hist' = <<>>

\* the step handles a message other than "start" on telephony socket c, which no call
\* has been bound to
OtherOnNewSocket(e, c) ==
    /\ e.op = "twilio_message" /\ e.conn = c
    /\ e.data.kind = "json" /\ e.data.value.event # "start"
    /\ connUser[c] = NONE

\* C33: on a telephony socket that no call has been bound to, a message other than
\* "start" (media, with or without payload, stop, close, an unknown event) changes
\* nothing, sends nothing and records nothing; and a model socket comes into being
\* only in a step that handles a message of a telephony socket bound to a call.
C33_NothingBeforeIdentification ==
    [][ /\ \A c \in TwilioConns : OtherOnNewSocket(ev', c) => Untouched
        /\ \A m \in ModelConns :
              (readyState[m] = FREE /\ readyState'[m] # FREE)
              => /\ ev'.op = "twilio_message"
                 /\ connUser'[ev'.conn] # NONE
                 /\ obj'[connSess'[ev'.conn]].twilioConn = ev'.conn ]_vars

\* a "close" event has been handled on an open socket that is bound to no call, while
\* the user's call is registered and waits for its "start"
C33_Witness ==
    /\ LastTwilio("close")
    /\ connUser[ev.conn] = NONE
    /\ readyState[ev.conn] = OPEN
    /\ callSidToUserId[ToolCallSid] = TheUser
    /\ HasSession(TheUser)
    /\ Session(TheUser).outboundCallStatus = "initiating"

\* the step handles a text that is not JSON, on a telephony, a model or an observer socket
Unparsable(e) ==
    /\ e.op \in {"twilio_message", "model_message", "frontend_message"}
    /\ e.data = Garbage

\* C34: a message that does not parse, on any of the three links, changes nothing,
\* creates no session, sends nothing and records nothing.
C34_UnparsableDropped ==
    [][ Unparsable(ev') => Untouched ]_vars

\* a text that is not JSON came in on the model link of a call in progress, with the
\* telephony link and the observer link open: nothing was passed on
C34_Witness ==
    /\ ev.op = "model_message"
    /\ ev.data = Garbage
    /\ HasSession(TheUser)
    /\ Session(TheUser).modelConn = ev.conn
    /\ IsOpen(World, Session(TheUser).twilioConn)
    /\ IsOpen(World, Session(TheUser).frontendConn)
    /\ sent = <<>>

\* C35: no message, whatever its content, makes a listener throw an exception that
\* nothing catches.
C35_NoUnhandledFailure == ev.op # "uncaught_exception"

\* the step handles the connection of observer socket c, which came with token t
\* (NONE: with no token)
ObserverConnects(e, c, t) == e.op = "frontend_connection" /\ e.conn = c /\ e.token = t

\* C36: an observer connection without a token, or with a token that is not the valid
\* token of a user, is closed in the step that accepts it, creates no session and is
\* attached to none; a connection with the valid token of a user is, in that same step,
\* the open observer link of that user's session and its listeners are that user's.
C36_ObserverNeedsValidToken ==
    [][ \A c \in FrontendConns, t \in Tokens \cup {NONE} :
          ObserverConnects(ev', c, t) =>
            IF \E u \in Users : t = TokenOf(u)
            THEN LET u == CHOOSE u \in Users : t = TokenOf(u)
                 IN /\ userSessions'[u] # NoSess
                    /\ obj'[userSessions'[u]].frontendConn = c
                    /\ readyState'[c] = OPEN
                    /\ connUser'[c] = u
            ELSE /\ readyState'[c] = CLOSING
                 /\ userSessions' = userSessions
                 /\ obj' = obj
                 /\ connUser'[c] = NONE
                 /\ connSess'[c] = NoSess ]_vars

\* a connection whose token does not verify has been refused while no session exists:
\* the socket is closing and there is still no session
C36_Witness ==
    /\ ev.op = "frontend_connection"
    /\ ev.token = "jwt_bad"
    /\ readyState[ev.conn] = CLOSING
    /\ \A u \in Users : ~HasSession(u)

\* the step handles the close or the error of model socket c of u, which is not the
\* model link of u's session any more: another model socket is, and it is open
FormerModelLinkFails(e, u, c) ==
    /\ ModelLinkFails(e, u) /\ e.conn = c
    /\ HasSession(u)
    /\ Session(u).modelConn # c
    /\ IsOpen(World, Session(u).modelConn)

\* C37: a close or an error of a model socket that the session has since replaced
\* leaves the session's current model link attached and open.
C37_FormerModelLinkHarmless ==
    [][ \A u \in Users, c \in ModelConns :
          FormerModelLinkFails(ev', u, c)
          => /\ obj'[userSessions[u]].modelConn = Session(u).modelConn
             /\ readyState'[Session(u).modelConn] = OPEN ]_vars

\* the end-of-call notifications and the conversation events among the history calls
\* of a step
StreamEvents(h) ==
    { i \in DOMAIN h : h[i].fn \in {"endCallTracking", "addConversationEvent"} }

\* C38: every end-of-call notification and every conversation event names the call
\* identifier of the stream it is emitted for, whatever calls the user registers in the
\* meantime.  Every stream here is a stream of the call ToolCallSid.
C38_EventsNameStreamCall ==
    [][ \A i \in StreamEvents(hist') : hist'[i].callSid = ToolCallSid ]_vars

\* C39: when the handler of a function call settles, its output and the
\* response.create that follows are sent on the model socket that emitted the call,
\* and on no other socket.
C39_OutputOnEmittingLink ==
    [][ ev'.op = "function_done"
        => \A i \in DOMAIN sent' : sent'[i].to = ev'.call.from ]_vars

\* C40: after every step, a session whose modelConn is set has its twilioConn set and a
\* streamSid recorded (no session exists at the start); and a step that clears
\* twilioConn of a session clears its modelConn as well.
C40_ModelLinkOnlyWithTelephony ==
    [][ /\ \A u \in Users :
              userSessions'[u] # NoSess /\ obj'[userSessions'[u]].modelConn # NONE
              => /\ obj'[userSessions'[u]].twilioConn # NONE
                 /\ obj'[userSessions'[u]].streamSid # NONE
        /\ \A s \in SessIds :
              (obj[s].twilioConn # NONE /\ obj'[s].twilioConn = NONE)
              => obj'[s].modelConn = NONE ]_vars

\* a call with a model link has been ended by a "close" event: the telephony link and
\* the model link were detached in that one step, and both sockets are closing
C40_Witness ==
    /\ LastTwilio("close")
    /\ HasSession(TheUser)
    /\ Session(TheUser).twilioConn = NONE
    /\ Session(TheUser).modelConn = NONE
    /\ readyState[ev.conn] = CLOSING
    /\ \E m \in ModelConns : connUser[m] = TheUser /\ readyState[m] = CLOSING

====
